---------------------------- MODULE Spec2Model ----------------------------
(***************************************************************************)
(* A model of the HTTP/1.1 message library http_lib (crates/http_lib) and  *)
(* of the parts of http_server that use it.                                *)
(*                                                                         *)
(* A byte is a number in 0..255 and a buffer (bytes::Bytes, Vec<u8>,       *)
(* &[u8]) is a sequence of bytes.  A Bytes cursor is the sequence of the   *)
(* bytes not consumed yet.  Pure functions of the library are operators    *)
(* computed the way the code computes them; each specification below       *)
(* draws the inputs of some of them and applies them in its actions.       *)
(***************************************************************************)
EXTENDS Integers, Sequences, FiniteSets, TLC

VARIABLES
    stream,     \* SpecMsg: the connection buffer handed to from_bytes
    message,    \* SpecMsg: what Request/Response::from_bytes returned
    fields,     \* SpecFields: the Fields under construction (a builder's headers)
    buffer,     \* SpecFields, SpecWire: wire bytes (Fields::to_buffer output, or received)
    parsed,     \* SpecFields, SpecWire: what Fields::from_bytes(buffer) returned
    echo,       \* SpecWire: Fields::to_buffer of the parsed Fields
    lines,      \* SpecWire: the header lines the received buffer was written from
    src,        \* SpecValue: the caller's bytes
    config,     \* SpecValue, SpecScan: the field's Config
    value,      \* SpecValue: the stored Value
    unquoted,   \* SpecValue: what Value::unquote returned
    requoted,   \* SpecValue: Value::from_unquoted of the unquoted bytes
    scan,       \* SpecScan: the state of the loop of Value::from_bytes
    wire,       \* SpecScan: the cursor the loop runs over, run-length coded
    pc          \* the step each specification is at

vars == <<stream, message, fields, buffer, parsed, echo, lines, src, config, value,
          unquoted, requoted, scan, wire, pc>>

msgVars == <<stream, message>>
fieldsVars == <<fields, buffer, parsed, echo, lines>>
valueVars == <<src, value, unquoted, requoted>>
scanVars == <<scan, wire>>

\* The value of a variable a specification does not use, or has not set yet.
NONE == [none |-> TRUE]

(***************************************************************************)
(* Bytes with a name.                                                      *)
(***************************************************************************)
LF == 10
CR == 13
SP == 32
DQUOTE == 34
LPAREN == 40
RPAREN == 41
COMMA == 44
DOT == 46
COLON == 58
BACKSLASH == 92

CRLF == <<CR, LF>>

Byte == 0..255

Min(a, b) == IF a < b THEN a ELSE b

\* s[from+1 ..]: what Bytes::slice(from..) and &s[from..] leave.
Drop(s, from) == SubSeq(s, from + 1, Len(s))

\* s[.. to]: what Bytes::split_to(to) returns and &s[..to] is.
Take(s, to) == SubSeq(s, 1, to)

StartsWith(s, prefix) ==
    /\ Len(prefix) <= Len(s)
    /\ Take(s, Len(prefix)) = prefix

(***************************************************************************)
(* chars.rs: the classification tables.  A table maps a byte to itself     *)
(* when the byte is in the class and to 0 otherwise.                       *)
(***************************************************************************)
IsAsciiAlphanumeric(c) == c \in 48..57 \/ c \in 65..90 \/ c \in 97..122

URI_MAP(c) ==
    IF \/ IsAsciiAlphanumeric(c)
       \* : | ? # [ ] @ ! $ & ' ( ) * + , ; = % - . _ ~ /
       \/ c \in {58, 124, 63, 35, 91, 93, 64, 33, 36, 38, 39, 40,
                 41, 42, 43, 44, 59, 61, 37, 45, 46, 95, 126, 47}
    THEN c ELSE 0

TCHAR_MAP(c) ==
    IF \/ IsAsciiAlphanumeric(c)
       \* ! # $ % & ' * + - . ^ _ ` | ~
       \/ c \in {33, 35, 36, 37, 38, 39, 42, 43, 45, 46, 94, 95, 96, 124, 126}
    THEN c ELSE 0

TOKEN_MAP(c) ==
    IF \/ TCHAR_MAP(c) # 0
       \* ) / : ; < = > ? @ [ ] { } and the space
       \/ c \in {41, 47, 58, 59, 60, 61, 62, 63, 64, 91, 93, 123, 125, 32}
    THEN c ELSE 0

DATE_MAP(c) ==
    IF \/ IsAsciiAlphanumeric(c)
       \/ c \in {32, 44, 58}    \* the space , :
    THEN c ELSE 0

CTEXT_MAP(c) ==
    IF c \in {9, 32} \/ c \in 33..39 \/ c \in 42..91 \/ c \in 93..126 \/ c \in 128..255
    THEN c ELSE 0

\* QUOTED_TEXT_MAP as it would be if it held every byte.
QUOTED_TEXT_MAP_every(c) == c

QUOTED_TEXT_MAP(c) ==
    IF c \in {9, 32, 33} \/ c \in 35..91 \/ c \in 93..126 \/ c \in 128..255
    THEN c ELSE 0

MapNames == {"URI_MAP", "TCHAR_MAP", "TOKEN_MAP", "DATE_MAP", "CTEXT_MAP",
             "QUOTED_TEXT_MAP"}

\* map[b as usize] for the table a Config refers to.
MapAt(map, b) ==
    CASE map = "URI_MAP" -> URI_MAP(b)
      [] map = "TCHAR_MAP" -> TCHAR_MAP(b)
      [] map = "TOKEN_MAP" -> TOKEN_MAP(b)
      [] map = "DATE_MAP" -> DATE_MAP(b)
      [] map = "CTEXT_MAP" -> CTEXT_MAP(b)
      [] map = "QUOTED_TEXT_MAP" -> QUOTED_TEXT_MAP(b)

(***************************************************************************)
(* advance.rs: the cursor operations.  Each returns the cursor it leaves   *)
(* (rest) and what the call returns.                                       *)
(***************************************************************************)
\* advance_byte as it would be if it left a matched byte in place.
advance_byte_kept(bytes, byte) ==
    [rest |-> bytes, ret |-> Len(bytes) > 0 /\ bytes[1] = byte]

advance_byte(bytes, byte) ==
    LET advanced == Len(bytes) > 0 /\ bytes[1] = byte
    IN  [rest |-> IF advanced THEN Drop(bytes, 1) ELSE bytes, ret |-> advanced]

advance_bytes(bytes, prefix) ==
    IF StartsWith(bytes, prefix)
    THEN [rest |-> Drop(bytes, Len(prefix)), ret |-> TRUE]
    ELSE [rest |-> bytes, ret |-> FALSE]

\* The length of the longest prefix of bytes whose bytes are all in the set ok:
\* iter().take_while(predicate).count().
PrefixLen(bytes, ok) ==
    LET bad == {i \in 1..Len(bytes) : bytes[i] \notin ok}
    IN  IF bad = {} THEN Len(bytes)
        ELSE (CHOOSE i \in bad : \A j \in bad : i <= j) - 1

\* advance_while as it would be if it stopped one byte short of the first byte
\* that fails the predicate.
advance_while_short(bytes, ok) ==
    LET amt == PrefixLen(bytes, ok)
        short == IF amt > 1 THEN amt - 1 ELSE amt
    IN  [rest |-> Drop(bytes, short), ret |-> short]

advance_while(bytes, ok) ==
    LET amt == PrefixLen(bytes, ok)
    IN  [rest |-> Drop(bytes, amt), ret |-> amt]

split_while(bytes, ok) ==
    LET amt == PrefixLen(bytes, ok)
    IN  [rest |-> Drop(bytes, amt), ret |-> Take(bytes, amt)]

\* split_one_byte: ret is [some, byte].
split_one_byte(bytes) ==
    IF bytes = <<>> THEN [rest |-> bytes, ret |-> [some |-> FALSE]]
    ELSE [rest |-> Drop(bytes, 1), ret |-> [some |-> TRUE, byte |-> bytes[1]]]

(***************************************************************************)
(* field.rs: Config and Validator.                                         *)
(***************************************************************************)
Configs == [map : MapNames, comments : BOOLEAN, quotes : BOOLEAN, commas : BOOLEAN]

validate_byte(cfg, byte) ==
    \/ MapAt(cfg.map, byte) # 0
    \/ (cfg.comments /\ (byte = LPAREN \/ byte = RPAREN))
    \/ (cfg.quotes /\ byte = DQUOTE)

is_opaque(b) == b >= 128

\* Validator::new: the state of a Validator (its Config is passed beside it).
\* Validator::new as it would be if it began with an escape pending.
ValidatorNewPending ==
    [quoted |-> FALSE, backslash |-> TRUE, comment_stack |-> 0, error |-> "None"]

ValidatorNew ==
    [quoted |-> FALSE, backslash |-> FALSE, comment_stack |-> 0, error |-> "None"]

\* The macro err! of Validator::advance as it would be if it returned the error
\* and did not record it.
err_unrecorded(v, e) == [v |-> v, ret |-> e]

\* The macro err! of Validator::advance: records the error and returns it.
err(v, e) == [v |-> [v EXCEPT !.error = e], ret |-> e]

\* Validator::advance(b): the Validator it leaves (v) and what it returns
\* (ret): "OkTrue", "OkFalse", or the ValidationError.
ValidatorAdvance(v, cfg, b) ==
    IF v.error # "None" THEN [v |-> v, ret |-> v.error]
    ELSE IF v.quoted THEN
        IF v.backslash THEN [v |-> [v EXCEPT !.backslash = FALSE], ret |-> "OkTrue"]
        ELSE IF b = BACKSLASH THEN [v |-> [v EXCEPT !.backslash = TRUE], ret |-> "OkFalse"]
        ELSE IF b = DQUOTE THEN [v |-> [v EXCEPT !.quoted = FALSE], ret |-> "OkFalse"]
        ELSE IF QUOTED_TEXT_MAP(b) = 0 THEN err(v, "Quote")
        ELSE [v |-> v, ret |-> IF ~is_opaque(b) THEN "OkTrue" ELSE "OkFalse"]
    ELSE IF v.comment_stack > 0 THEN
        IF CTEXT_MAP(b) # 0 THEN [v |-> v, ret |-> "OkTrue"]
        ELSE IF cfg.quotes /\ b = DQUOTE THEN [v |-> [v EXCEPT !.quoted = TRUE], ret |-> "OkFalse"]
        ELSE IF b = LPAREN
            THEN [v |-> [v EXCEPT !.comment_stack = v.comment_stack + 1], ret |-> "OkTrue"]
        ELSE IF b = RPAREN
            THEN [v |-> [v EXCEPT !.comment_stack = v.comment_stack - 1], ret |-> "OkTrue"]
        ELSE IF is_opaque(b) THEN [v |-> v, ret |-> "OkFalse"]
        ELSE err(v, "Comment")
    ELSE IF MapAt(cfg.map, b) # 0 THEN [v |-> v, ret |-> "OkTrue"]
    ELSE IF cfg.quotes /\ b = DQUOTE THEN [v |-> [v EXCEPT !.quoted = TRUE], ret |-> "OkFalse"]
    ELSE IF cfg.comments /\ b = LPAREN
        THEN [v |-> [v EXCEPT !.comment_stack = v.comment_stack + 1], ret |-> "OkTrue"]
    ELSE IF (cfg.commas /\ b = COMMA) \/ b = CR
        THEN err(v, "Terminated")
    ELSE err(v, "Token")

in_root_scope(v) == ~(v.quoted \/ v.comment_stack > 0)

(***************************************************************************)
(* field.rs: Value.  A Value is [value, is_valid_ascii].                   *)
(***************************************************************************)
MAX_LEN == 100000

RECURSIVE write_escaped_loop(_, _, _, _, _, _)
write_escaped_loop(dest, bytes, map, escape, i, extend_from) ==
    IF i >= Len(bytes) THEN dest \o Drop(bytes, extend_from)
    ELSE IF MapAt(map, bytes[i + 1]) = 0
        THEN write_escaped_loop(dest \o SubSeq(bytes, extend_from + 1, i) \o <<escape>>,
                                bytes, map, escape, i + 1, i)
    ELSE write_escaped_loop(dest, bytes, map, escape, i + 1, extend_from)

\* write_escaped_bytes as it would be if it copied the bytes and escaped none.
write_plain_bytes(dest, bytes, map, escape) == dest \o bytes

\* write_escaped_bytes(dest, src, map, escape): dest as the call leaves it.
write_escaped_bytes(dest, bytes, map, escape) ==
    write_escaped_loop(dest, bytes, map, escape, 0, 0)

\* One iteration of the loop of Value::from_unquoted on byte b; acc holds the
\* locals of the function and a is what validator.advance(b) did.
from_unquoted_byte(acc, b, a) ==
    [is_valid_ascii |-> acc.is_valid_ascii /\ b < 128,
     invalid_quoted_bytes |->
        acc.invalid_quoted_bytes + (IF QUOTED_TEXT_MAP(b) = 0 THEN 1 ELSE 0),
     validator |-> a.v,
     contains_opaque_data |-> acc.contains_opaque_data \/ a.ret # "OkTrue"]

RECURSIVE from_unquoted_loop(_, _, _, _)
from_unquoted_loop(bytes, cfg, i, acc) ==
    IF i >= Len(bytes) THEN acc
    ELSE from_unquoted_loop(bytes, cfg, i + 1,
            from_unquoted_byte(acc, bytes[i + 1],
                               ValidatorAdvance(acc.validator, cfg, bytes[i + 1])))

\* The statements of Value::from_unquoted after its loop as they would be if
\* only the scope of the Validator decided.
from_unquoted_finish_scoped(bytes, acc) ==
    IF in_root_scope(acc.validator)
    THEN [value |-> bytes, is_valid_ascii |-> acc.is_valid_ascii]
    ELSE [value |-> write_escaped_bytes(<<DQUOTE>>, bytes, "QUOTED_TEXT_MAP", BACKSLASH)
                        \o <<DQUOTE>>,
          is_valid_ascii |-> acc.is_valid_ascii]

\* The statements of Value::from_unquoted after its loop.
from_unquoted_finish(bytes, acc) ==
    IF ~acc.contains_opaque_data /\ in_root_scope(acc.validator)
    THEN [value |-> bytes, is_valid_ascii |-> acc.is_valid_ascii]
    ELSE [value |-> write_escaped_bytes(<<DQUOTE>>, bytes, "QUOTED_TEXT_MAP", BACKSLASH)
                        \o <<DQUOTE>>,
          is_valid_ascii |-> acc.is_valid_ascii]

ValueFromUnquoted(bytes, cfg) ==
    from_unquoted_finish(bytes,
        from_unquoted_loop(bytes, cfg, 0,
            [is_valid_ascii |-> TRUE, invalid_quoted_bytes |-> 0,
             validator |-> ValidatorNew, contains_opaque_data |-> FALSE]))

\* The locals of the loop of Value::from_bytes before its first iteration;
\* ret is "Continue" while the loop runs and what it returned afterwards.
ScanNew ==
    [i |-> 0, validator |-> ValidatorNew, is_valid_ascii |-> TRUE, ret |-> "Continue"]

\* The match on validator.advance(b) in the loop of Value::from_bytes; a is
\* what the call did.
ScanMatch(s, b, a) ==
    [i |-> IF a.ret \in {"OkTrue", "OkFalse"} THEN s.i + 1 ELSE s.i,
     validator |-> a.v,
     is_valid_ascii |-> s.is_valid_ascii /\ b < 128,
     ret |-> CASE a.ret \in {"OkTrue", "OkFalse"} -> "Continue"
               [] a.ret = "Terminated" -> "Ok"
               [] a.ret = "Token" -> "ValueInvalidToken"
               [] a.ret = "Comment" -> "InvalidCommentCharacter"
               [] a.ret = "Quote" -> "ValueInvalidQuotedText"]

\* One iteration of the loop of Value::from_bytes, on byte b at index s.i.
ScanByte(s, cfg, b) ==
    IF s.i >= MAX_LEN THEN [s EXCEPT !.ret = "ValueTooLong"]
    ELSE ScanMatch(s, b, ValidatorAdvance(s.validator, cfg, b))

\* The statement after the loop of Value::from_bytes as it would be if the end
\* of the input ended the value.
ScanEndTerminates(s) == [s EXCEPT !.ret = "Ok"]

\* The iterator of the loop is exhausted: the statement after the loop.
ScanEnd(s) == [s EXCEPT !.ret = "IncorrectlyTerminated"]

RECURSIVE from_bytes_loop(_, _, _)
from_bytes_loop(bytes, cfg, s) ==
    IF s.ret # "Continue" THEN s
    ELSE IF s.i >= Len(bytes) THEN ScanEnd(s)
    ELSE CHOOSE r \in { from_bytes_loop(bytes, cfg, t) :
                            t \in {ScanByte(s, cfg, bytes[s.i + 1])} } : TRUE

\* What Value::from_bytes returns when its loop ended as s.
ScanResult(bytes, s) ==
    IF s.ret = "Ok"
    THEN [ok |-> TRUE,
          value |-> [value |-> Take(bytes, s.i), is_valid_ascii |-> s.is_valid_ascii],
          rest |-> Drop(bytes, s.i)]
    ELSE [ok |-> FALSE, err |-> s.ret, rest |-> bytes]

\* Value::from_bytes: [ok, value, rest] or [ok, err, rest].
ValueFromBytes(bytes, cfg) == ScanResult(bytes, from_bytes_loop(bytes, cfg, ScanNew))

ValueNew(bytes, cfg) ==
    [value |-> bytes,
     is_valid_ascii |-> \A i \in 1..Len(bytes) : validate_byte(cfg, bytes[i])]

\* The loop of Value::unquote from byte i on; a is what validator.advance did
\* on byte i.
RECURSIVE unquote_loop(_, _, _, _, _, _)
unquote_match(bytes, cfg, i, extend_from, res, a) ==
    CASE a.ret = "OkTrue" -> unquote_loop(bytes, cfg, i + 1, extend_from, res, a.v)
      [] a.ret = "OkFalse" ->
            unquote_loop(bytes, cfg, i + 1, i + 1,
                         res \o SubSeq(bytes, extend_from + 1, i), a.v)
      [] OTHER -> [ok |-> FALSE, err |-> "InvalidData"]

unquote_loop(bytes, cfg, i, extend_from, res, validator) ==
    IF i >= Len(bytes)
    THEN [ok |-> TRUE,
          bytes |-> IF extend_from < Len(bytes) THEN res \o Drop(bytes, extend_from)
                    ELSE res]
    ELSE unquote_match(bytes, cfg, i, extend_from, res,
                       ValidatorAdvance(validator, cfg, bytes[i + 1]))

\* Value::unquote: [ok, bytes] or [ok, err].
ValueUnquote(v, cfg) == unquote_loop(v.value, cfg, 0, 0, <<>>, ValidatorNew)

(***************************************************************************)
(* field.rs: Values.  A Values is [first, extra, config].                  *)
(***************************************************************************)
ValuesNew(first, cfg) == [first |-> ValueNew(first, cfg), extra |-> <<>>, config |-> cfg]

ValuesPush(vs, bytes) == [vs EXCEPT !.extra = Append(vs.extra, ValueNew(bytes, vs.config))]

\* Values::extend_from_bytes: [ok, values, rest] or [ok, err, rest].  In
\* extend_pushed, v is what Value::from_bytes returned and in extend_again,
\* comma is what advance_byte(b',') did.
RECURSIVE ValuesExtendFromBytes(_, _)
extend_again(vs, comma) ==
    IF comma.ret THEN ValuesExtendFromBytes(vs, comma.rest)
    ELSE [ok |-> TRUE, values |-> vs, rest |-> comma.rest]

extend_pushed(vs, v) ==
    IF ~v.ok THEN v
    ELSE extend_again([vs EXCEPT !.extra = Append(vs.extra, v.value)],
                      advance_byte(v.rest, COMMA))

ValuesExtendFromBytes(vs, bytes) ==
    extend_pushed(vs, ValueFromBytes(advance_while(bytes, {SP}).rest, vs.config))

\* Values::from_bytes, v being what Value::from_bytes returned for the first
\* value.
values_first(v, cfg) ==
    IF ~v.ok THEN v
    ELSE extend_again([first |-> v.value, extra |-> <<>>, config |-> cfg],
                      advance_byte(v.rest, COMMA))

\* Values::from_bytes as it would be if it kept the spaces before the first
\* value.
ValuesFromBytesUnskipped(bytes, cfg) == values_first(ValueFromBytes(bytes, cfg), cfg)

ValuesFromBytes(bytes, cfg) ==
    values_first(ValueFromBytes(advance_while(bytes, {SP}).rest, cfg), cfg)

\* Values::iter_refs as a sequence.
iter_refs(vs) == <<vs.first>> \o vs.extra

\* The loop of Values::write_to_buffer as it would be if it wrote a comma and
\* no space between two values.
RECURSIVE values_write_tight(_, _, _)
values_write_tight(out, refs, first) ==
    IF refs = <<>> THEN out
    ELSE values_write_tight(
            (IF ~first THEN out \o <<COMMA>> ELSE out) \o refs[1].value,
            Tail(refs), FALSE)

RECURSIVE values_write_loop(_, _, _)
values_write_loop(out, refs, first) ==
    IF refs = <<>> THEN out
    ELSE values_write_loop(
            (IF ~first THEN out \o <<COMMA, SP>> ELSE out) \o refs[1].value,
            Tail(refs), FALSE)

\* Values::write_to_buffer: the buffer as the call leaves it.
ValuesWriteToBuffer(vs, out) == values_write_loop(out, iter_refs(vs), TRUE)

(***************************************************************************)
(* field.rs: Fields.  A Fields is the IndexMap's entries in insertion      *)
(* order, each [name, values]; no two entries share a name.                *)
(***************************************************************************)
DATE_FIELDS ==
    { <<68, 97, 116, 101>>,                                                 \* Date
      <<76, 97, 115, 116, 45, 77, 111, 100, 105, 102, 105, 101, 100>>,      \* Last-Modified
      <<69, 120, 112, 105, 114, 101, 115>> }                                \* Expires

\* config_for_name as it would be if every field had the token table.
config_for_any_name(name) ==
    [map |-> "TOKEN_MAP", comments |-> TRUE, quotes |-> TRUE, commas |-> TRUE]

config_for_name(name) ==
    [map |-> IF name \in DATE_FIELDS THEN "DATE_MAP" ELSE "TOKEN_MAP",
     comments |-> TRUE, quotes |-> TRUE, commas |-> TRUE]

TChars == {c \in Byte : TCHAR_MAP(c) # 0}

\* The most bytes field_name_from_bytes takes as a name.
NAME_CAP == 1024

\* field_name_from_bytes as it would be without take(1024).
field_name_uncapped(bytes) ==
    [rest |-> Drop(bytes, PrefixLen(bytes, TChars)),
     ret |-> Take(bytes, PrefixLen(bytes, TChars))]

field_name_from_bytes(bytes) ==
    LET field_name_len == Min(PrefixLen(bytes, TChars), NAME_CAP)
    IN  [rest |-> Drop(bytes, field_name_len), ret |-> Take(bytes, field_name_len)]

FieldsNew == <<>>

\* IndexMap::get_index_of: the position of the entry named name, 0 if none.
IndexOf(fs, name) ==
    IF \E k \in 1..Len(fs) : fs[k].name = name
    THEN CHOOSE k \in 1..Len(fs) : fs[k].name = name
    ELSE 0

\* The loop of Fields::from_bytes and the statements after it.  The body of
\* the loop is fields_line (name is what field_name_from_bytes did),
\* fields_values (k is where the name is among the entries and value_bytes
\* the cursor at the values) and fields_line_end (vs is what the parse of
\* the values returned).
RECURSIVE fields_from_bytes_loop(_, _)
fields_insert(fs, k, name, values, crlf) ==
    IF ~crlf.ret THEN [ok |-> FALSE, err |-> "Malformed", rest |-> crlf.rest]
    ELSE fields_from_bytes_loop(
            IF k # 0 THEN [fs EXCEPT ![k].values = values]
            ELSE Append(fs, [name |-> name, values |-> values]),
            crlf.rest)

fields_line_end(fs, k, name, vs) ==
    IF ~vs.ok THEN vs
    ELSE fields_insert(fs, k, name, vs.values, advance_bytes(vs.rest, CRLF))

fields_values(fs, k, name, value_bytes) ==
    fields_line_end(fs, k, name,
        IF k # 0 THEN ValuesExtendFromBytes(fs[k].values, value_bytes)
        ELSE ValuesFromBytes(value_bytes, config_for_name(name)))

fields_colon(fs, name, colon) ==
    IF ~colon.ret THEN [ok |-> FALSE, err |-> "Malformed", rest |-> colon.rest]
    ELSE fields_values(fs, IndexOf(fs, name), name, advance_byte(colon.rest, SP).rest)

fields_line(fs, name) ==
    IF name.ret = <<>> THEN [ok |-> FALSE, err |-> "NameMissing", rest |-> name.rest]
    ELSE fields_colon(fs, name.ret, advance_byte(name.rest, COLON))

fields_end(fs, crlf) ==
    IF ~crlf.ret THEN [ok |-> FALSE, err |-> "IncorrectlyTerminated", rest |-> crlf.rest]
    ELSE [ok |-> TRUE, fields |-> fs, rest |-> crlf.rest]

fields_from_bytes_loop(fs, bytes) ==
    IF ~StartsWith(bytes, CRLF) /\ Len(bytes) > 0 /\ IsAsciiAlphanumeric(bytes[1])
    THEN fields_line(fs, field_name_from_bytes(bytes))
    ELSE fields_end(fs, advance_bytes(bytes, CRLF))

\* Fields::from_bytes: [ok, fields, rest] or [ok, err, rest].
FieldsFromBytes(bytes) == fields_from_bytes_loop(FieldsNew, bytes)

\* Fields::add_header_value as it would be if the value given for a name that
\* has an entry took the place of the entry's values.
add_header_value_replacing(fs, name, bytes) ==
    LET k == IndexOf(fs, name)
    IN  IF k # 0 THEN [fs EXCEPT ![k].values = ValuesNew(bytes, config_for_name(name))]
        ELSE Append(fs, [name |-> name, values |-> ValuesNew(bytes, config_for_name(name))])

add_header_value(fs, name, bytes) ==
    LET k == IndexOf(fs, name)
    IN  IF k # 0 THEN [fs EXCEPT ![k].values = ValuesPush(fs[k].values, bytes)]
        ELSE Append(fs, [name |-> name, values |-> ValuesNew(bytes, config_for_name(name))])

FieldsGet(fs, name) ==
    LET k == IndexOf(fs, name)
    IN  IF k # 0 THEN [some |-> TRUE, values |-> fs[k].values] ELSE [some |-> FALSE]

\* write_field_to_buffer as it would be if it wrote no space after the colon.
write_field_without_space(out, name, vs) ==
    ValuesWriteToBuffer(vs, out \o name \o <<COLON>>)

write_field_to_buffer(out, name, vs) ==
    ValuesWriteToBuffer(vs, out \o name \o <<COLON, SP>>)

RECURSIVE fields_write_loop(_, _)
fields_write_loop(out, entries) ==
    IF entries = <<>> THEN out
    ELSE fields_write_loop(
            write_field_to_buffer(out, entries[1].name, entries[1].values) \o CRLF,
            Tail(entries))

\* Fields::write_to_buffer as it would be without the blank line that ends
\* the fields.
FieldsWriteToBufferUnterminated(fs, out) == fields_write_loop(out, fs)

\* Fields::write_to_buffer: the buffer as the call leaves it.
FieldsWriteToBuffer(fs, out) ==
    LET written == fields_write_loop(out, fs)
    IN  IF fs # <<>> THEN written \o CRLF ELSE written

FieldsToBuffer(fs) == FieldsWriteToBuffer(fs, <<>>)

(***************************************************************************)
(* transcode.rs, version.rs: Version.  A Version is <<major, minor>>.      *)
(***************************************************************************)
\* byte & 0xcf: the byte with bits 4 and 5 cleared.
ascii_digit_to_u8(byte) == byte - ((byte \div 16) % 4) * 16

HTTP_SLASH == <<72, 84, 84, 80, 47>>    \* HTTP/

\* Version::from_bytes: [ok, version, rest] or [ok, err, rest].
VersionFromBytes(bytes) ==
    LET prefix == advance_bytes(bytes, HTTP_SLASH)
        b == prefix.rest
    IN  IF Len(bytes) < 6 \/ ~prefix.ret
        THEN [ok |-> FALSE, err |-> "Malformed", rest |-> bytes]
        ELSE IF Len(b) >= 3 /\ b[2] = DOT
        THEN LET major_digit == ascii_digit_to_u8(b[1])
                 minor_digit == ascii_digit_to_u8(b[3])
             IN  IF major_digit < 10 /\ minor_digit < 10
                 THEN [ok |-> TRUE, version |-> <<major_digit, minor_digit>>,
                       rest |-> Drop(b, 3)]
                 ELSE [ok |-> FALSE, err |-> "Malformed", rest |-> b]
        ELSE LET major_digit == ascii_digit_to_u8(b[1])
             IN  IF major_digit < 10
                 THEN [ok |-> TRUE, version |-> <<major_digit, 0>>, rest |-> Drop(b, 1)]
                 ELSE [ok |-> FALSE, err |-> "Malformed", rest |-> b]

\* char::from_digit(d, 10) as u8, for d in 0..9.
from_digit(d) == 48 + d

\* Version::write_to_buffer as it would be if it wrote the minor digit always.
VersionWriteBoth(version, out) ==
    out \o HTTP_SLASH \o <<from_digit(version[1]), DOT, from_digit(version[2])>>

\* Version::write_to_buffer: the buffer as the call leaves it.
VersionWriteToBuffer(version, out) ==
    LET head == out \o HTTP_SLASH \o <<from_digit(version[1])>>
    IN  IF version[2] # 0 THEN head \o <<DOT, from_digit(version[2])>> ELSE head

(***************************************************************************)
(* method.rs: Method.                                                      *)
(***************************************************************************)
MethodAsBytes(method) ==
    CASE method = "Get" -> <<71, 69, 84>>  \* GET
      [] method = "Head" -> <<72, 69, 65, 68>>  \* HEAD
      [] method = "Post" -> <<80, 79, 83, 84>>  \* POST
      [] method = "Put" -> <<80, 85, 84>>  \* PUT
      [] method = "Delete" -> <<68, 69, 76, 69, 84, 69>>  \* DELETE
      [] method = "Patch" -> <<80, 65, 84, 67, 72>>  \* PATCH
      [] method = "Options" -> <<79, 80, 84, 73, 79, 78, 83>>  \* OPTIONS
      [] method = "Connect" -> <<67, 79, 78, 78, 69, 67, 84>>  \* CONNECT
      [] method = "Trace" -> <<84, 82, 65, 67, 69>>  \* TRACE

\* The order in which Method::from_bytes tries the methods.
MethodOrder == <<"Get", "Head", "Post", "Put", "Delete", "Patch", "Options",
                 "Connect", "Trace">>

\* Method::from_bytes: [some, method, rest].
MethodFromBytes(bytes) ==
    LET hits == {k \in 1..Len(MethodOrder) :
                    advance_bytes(bytes, MethodAsBytes(MethodOrder[k])).ret}
    IN  IF hits = {} THEN [some |-> FALSE, rest |-> bytes]
        ELSE LET k == CHOOSE h \in hits : \A g \in hits : h <= g
             IN  [some |-> TRUE, method |-> MethodOrder[k],
                  rest |-> advance_bytes(bytes, MethodAsBytes(MethodOrder[k])).rest]

(***************************************************************************)
(* response/code.rs: Code.  A Code is its number.                          *)
(***************************************************************************)
\* The variants of the enum Code.
CodeValues ==
    {100, 101, 102, 103, 200, 201, 202, 203, 204, 205,
     206, 207, 208, 226, 300, 301, 302, 303, 304, 305,
     307, 308, 400, 401, 402, 403, 404, 405, 406, 407,
     408, 409, 410, 411, 412, 413, 414, 415, 416, 417,
     418, 421, 422, 423, 424, 425, 426, 428, 429, 431,
     451, 500, 501, 502, 503, 504, 505, 506, 507, 508,
     510, 511}

ReasonPhrase(code) ==
    CASE code = 100 -> <<67, 111, 110, 116, 105, 110, 117, 101>>  \* Continue
      [] code = 101 -> <<83, 119, 105, 116, 99, 104, 105, 110, 103, 32, 80, 114, 111, 116, 111, 99, 111, 108, 115>>  \* Switching Protocols
      [] code = 102 -> <<80, 114, 111, 99, 101, 115, 115, 105, 110, 103>>  \* Processing
      [] code = 103 -> <<69, 97, 114, 108, 121, 32, 72, 105, 110, 116, 115>>  \* Early Hints
      [] code = 200 -> <<79, 75>>  \* OK
      [] code = 201 -> <<67, 114, 101, 97, 116, 101, 100>>  \* Created
      [] code = 202 -> <<65, 99, 99, 101, 112, 116, 101, 100>>  \* Accepted
      [] code = 203 -> <<78, 111, 110, 45, 65, 117, 116, 104, 111, 114, 105, 116, 97, 116, 105, 118, 101, 32, 73, 110, 102, 111, 114, 109, 97, 116, 105, 111, 110>>  \* Non-Authoritative Information
      [] code = 204 -> <<78, 111, 32, 67, 111, 110, 116, 101, 110, 116>>  \* No Content
      [] code = 205 -> <<82, 101, 115, 101, 116, 32, 67, 111, 110, 116, 101, 110, 116>>  \* Reset Content
      [] code = 206 -> <<80, 97, 114, 116, 105, 97, 108, 32, 67, 111, 110, 116, 101, 110, 116>>  \* Partial Content
      [] code = 207 -> <<77, 117, 108, 116, 105, 45, 83, 116, 97, 116, 117, 115>>  \* Multi-Status
      [] code = 208 -> <<65, 108, 114, 101, 97, 100, 121, 32, 82, 101, 112, 111, 114, 116, 101, 100>>  \* Already Reported
      [] code = 226 -> <<73, 77, 32, 85, 115, 101, 100>>  \* IM Used
      [] code = 300 -> <<77, 117, 108, 116, 105, 112, 108, 101, 32, 67, 104, 111, 105, 99, 101, 115>>  \* Multiple Choices
      [] code = 301 -> <<77, 111, 118, 101, 100, 32, 80, 101, 114, 109, 97, 110, 101, 110, 116, 108, 121>>  \* Moved Permanently
      [] code = 302 -> <<70, 111, 117, 110, 100>>  \* Found
      [] code = 303 -> <<83, 101, 101, 32, 79, 116, 104, 101, 114>>  \* See Other
      [] code = 304 -> <<78, 111, 116, 32, 77, 111, 100, 105, 102, 105, 101, 100>>  \* Not Modified
      [] code = 305 -> <<85, 115, 101, 32, 80, 114, 111, 120, 121>>  \* Use Proxy
      [] code = 307 -> <<84, 101, 109, 112, 111, 114, 97, 114, 121, 32, 82, 101, 100, 105, 114, 101, 99, 116>>  \* Temporary Redirect
      [] code = 308 -> <<80, 101, 114, 109, 97, 110, 101, 110, 116, 32, 82, 101, 100, 105, 114, 101, 99, 116>>  \* Permanent Redirect
      [] code = 400 -> <<66, 97, 100, 32, 82, 101, 113, 117, 101, 115, 116>>  \* Bad Request
      [] code = 401 -> <<85, 110, 97, 117, 116, 104, 111, 114, 105, 122, 101, 100>>  \* Unauthorized
      [] code = 402 -> <<80, 97, 121, 109, 101, 110, 116, 32, 82, 101, 113, 117, 105, 114, 101, 100>>  \* Payment Required
      [] code = 403 -> <<70, 111, 114, 98, 105, 100, 100, 101, 110>>  \* Forbidden
      [] code = 404 -> <<78, 111, 116, 32, 70, 111, 117, 110, 100>>  \* Not Found
      [] code = 405 -> <<77, 101, 116, 104, 111, 100, 32, 78, 111, 116, 32, 65, 108, 108, 111, 119, 101, 100>>  \* Method Not Allowed
      [] code = 406 -> <<78, 111, 116, 32, 65, 99, 99, 101, 112, 116, 97, 98, 108, 101>>  \* Not Acceptable
      [] code = 407 -> <<80, 114, 111, 120, 121, 32, 65, 117, 116, 104, 101, 110, 116, 105, 99, 97, 116, 105, 111, 110, 32, 82, 101, 113, 117, 105, 114, 101, 100>>  \* Proxy Authentication Required
      [] code = 408 -> <<82, 101, 113, 117, 101, 115, 116, 32, 84, 105, 109, 101, 111, 117, 116>>  \* Request Timeout
      [] code = 409 -> <<67, 111, 110, 102, 108, 105, 99, 116>>  \* Conflict
      [] code = 410 -> <<71, 111, 110, 101>>  \* Gone
      [] code = 411 -> <<76, 101, 110, 103, 116, 104, 32, 82, 101, 113, 117, 105, 114, 101, 100>>  \* Length Required
      [] code = 412 -> <<80, 114, 101, 99, 111, 110, 100, 105, 116, 105, 111, 110, 32, 70, 97, 105, 108, 101, 100>>  \* Precondition Failed
      [] code = 413 -> <<80, 97, 121, 108, 111, 97, 100, 32, 84, 111, 111, 32, 76, 97, 114, 103, 101>>  \* Payload Too Large
      [] code = 414 -> <<85, 82, 73, 32, 84, 111, 111, 32, 76, 111, 110, 103>>  \* URI Too Long
      [] code = 415 -> <<85, 110, 115, 117, 112, 112, 111, 114, 116, 101, 100, 32, 77, 101, 100, 105, 97, 32, 84, 121, 112, 101>>  \* Unsupported Media Type
      [] code = 416 -> <<82, 97, 110, 103, 101, 32, 78, 111, 116, 32, 83, 97, 116, 105, 115, 102, 105, 97, 98, 108, 101>>  \* Range Not Satisfiable
      [] code = 417 -> <<69, 120, 112, 101, 99, 116, 97, 116, 105, 111, 110, 32, 70, 97, 105, 108, 101, 100>>  \* Expectation Failed
      [] code = 418 -> <<73, 39, 109, 32, 97, 32, 116, 101, 97, 112, 111, 116>>  \* I'm a teapot
      [] code = 421 -> <<77, 105, 115, 100, 105, 114, 101, 99, 116, 101, 100, 32, 82, 101, 113, 117, 101, 115, 116>>  \* Misdirected Request
      [] code = 422 -> <<85, 110, 112, 114, 111, 99, 101, 115, 115, 97, 98, 108, 101, 32, 67, 111, 110, 116, 101, 110, 116>>  \* Unprocessable Content
      [] code = 423 -> <<76, 111, 99, 107, 101, 100>>  \* Locked
      [] code = 424 -> <<70, 97, 105, 108, 101, 100, 32, 68, 101, 112, 101, 110, 100, 101, 110, 99, 121>>  \* Failed Dependency
      [] code = 425 -> <<84, 111, 111, 32, 69, 97, 114, 108, 121>>  \* Too Early
      [] code = 426 -> <<85, 112, 103, 114, 97, 100, 101, 32, 82, 101, 113, 117, 105, 114, 101, 100>>  \* Upgrade Required
      [] code = 428 -> <<80, 114, 101, 99, 111, 110, 100, 105, 116, 105, 111, 110, 32, 82, 101, 113, 117, 105, 114, 101, 100>>  \* Precondition Required
      [] code = 429 -> <<84, 111, 111, 32, 77, 97, 110, 121, 32, 82, 101, 113, 117, 101, 115, 116, 115>>  \* Too Many Requests
      [] code = 431 -> <<82, 101, 113, 117, 101, 115, 116, 32, 72, 101, 97, 100, 101, 114, 32, 70, 105, 101, 108, 100, 115, 32, 84, 111, 111, 32, 76, 97, 114, 103, 101>>  \* Request Header Fields Too Large
      [] code = 451 -> <<85, 110, 97, 118, 97, 105, 108, 97, 98, 108, 101, 32, 70, 111, 114, 32, 76, 101, 103, 97, 108, 32, 82, 101, 97, 115, 111, 110, 115>>  \* Unavailable For Legal Reasons
      [] code = 500 -> <<73, 110, 116, 101, 114, 110, 97, 108, 32, 83, 101, 114, 118, 101, 114, 32, 69, 114, 114, 111, 114>>  \* Internal Server Error
      [] code = 501 -> <<78, 111, 116, 32, 73, 109, 112, 108, 101, 109, 101, 110, 116, 101, 100>>  \* Not Implemented
      [] code = 502 -> <<66, 97, 100, 32, 71, 97, 116, 101, 119, 97, 121>>  \* Bad Gateway
      [] code = 503 -> <<83, 101, 114, 118, 105, 99, 101, 32, 85, 110, 97, 118, 97, 105, 108, 97, 98, 108, 101>>  \* Service Unavailable
      [] code = 504 -> <<71, 97, 116, 101, 119, 97, 121, 32, 84, 105, 109, 101, 111, 117, 116>>  \* Gateway Timeout
      [] code = 505 -> <<72, 84, 84, 80, 32, 86, 101, 114, 115, 105, 111, 110, 32, 78, 111, 116, 32, 83, 117, 112, 112, 111, 114, 116, 101, 100>>  \* HTTP Version Not Supported
      [] code = 506 -> <<86, 97, 114, 105, 97, 110, 116, 32, 65, 108, 115, 111, 32, 78, 101, 103, 111, 116, 105, 97, 116, 101, 115>>  \* Variant Also Negotiates
      [] code = 507 -> <<73, 110, 115, 117, 102, 102, 105, 99, 105, 101, 110, 116, 32, 83, 116, 111, 114, 97, 103, 101>>  \* Insufficient Storage
      [] code = 508 -> <<76, 111, 111, 112, 32, 68, 101, 116, 101, 99, 116, 101, 100>>  \* Loop Detected
      [] code = 510 -> <<78, 111, 116, 32, 69, 120, 116, 101, 110, 100, 101, 100>>  \* Not Extended
      [] code = 511 -> <<78, 101, 116, 119, 111, 114, 107, 32, 65, 117, 116, 104, 101, 110, 116, 105, 99, 97, 116, 105, 111, 110, 32, 82, 101, 113, 117, 105, 114, 101, 100>>  \* Network Authentication Required
      [] OTHER -> <<>>

\* Code::as_bytes.
CodeAsBytes(code) ==
    <<48 + (code \div 100), 48 + ((code \div 10) % 10), 48 + (code % 10), SP>>
        \o ReasonPhrase(code)

\* Code::LOOKUP as it would be with the flag of the variant v at index v.
LOOKUP_unshifted == [idx \in 0..499 |-> idx \in CodeValues]

\* Code::LOOKUP: 500 flags, the flag at v - 100 set for each variant v.
LOOKUP == [idx \in 0..499 |-> (idx + 100) \in CodeValues]

\* Code::from_raw: [some, code].
CodeFromRaw(code) ==
    IF code < 100 THEN [some |-> FALSE]
    ELSE LET idx == code - 100
         IN  IF idx < 500 /\ LOOKUP[idx] THEN [some |-> TRUE, code |-> code]
             ELSE [some |-> FALSE]

IsDigit(c) == c \in 48..57

\* u16::MAX and usize::MAX (64 bits) in decimal.
U16_MAX == <<54, 53, 53, 51, 53>>
USIZE_MAX == <<49, 56, 52, 52, 54, 55, 52, 52, 48, 55, 51, 55, 48, 57, 53, 53, 49, 54, 49, 53>>

RECURSIVE DecimalValue(_)
DecimalValue(digits) ==
    IF digits = <<>> THEN 0
    ELSE 10 * DecimalValue(Take(digits, Len(digits) - 1)) + (digits[Len(digits)] - 48)

\* Whether the number the digits write is at most the number max writes.
AtMost(digits, max) ==
    LET d == Drop(digits, PrefixLen(digits, {48}))
    IN  \/ Len(d) < Len(max)
        \/ /\ Len(d) = Len(max)
           /\ \/ d = max
              \/ \E k \in 1..Len(d) : Take(d, k - 1) = Take(max, k - 1) /\ d[k] < max[k]

\* str::parse for an unsigned integer type whose largest value max writes, on
\* the bytes of a str: an optional '+', then one or more decimal digits that
\* write a number of the type.  [ok, n].
ParseUnsigned(bytes, max) ==
    LET digits == IF Len(bytes) > 0 /\ bytes[1] = 43 THEN Drop(bytes, 1) ELSE bytes
    IN  IF digits # <<>> /\ (\A i \in 1..Len(digits) : IsDigit(digits[i]))
                         /\ AtMost(digits, max)
        THEN [ok |-> TRUE, n |-> DecimalValue(digits)]
        ELSE [ok |-> FALSE]

\* Code::from_bytes: [ok, code, rest] or [ok, err, rest].  In code_reason,
\* code is what Code::from_raw returned and in code_raw, raw is what parse did.
code_reason(bytes, code) ==
    IF ~code.some THEN [ok |-> FALSE, err |-> "InvalidCode", rest |-> bytes]
    ELSE IF ~advance_bytes(bytes, CodeAsBytes(code.code)).ret
        THEN [ok |-> FALSE, err |-> "MalformedCode", rest |-> bytes]
    ELSE [ok |-> TRUE, code |-> code.code,
          rest |-> Drop(bytes, Len(CodeAsBytes(code.code)))]

code_raw(bytes, raw) ==
    IF ~raw.ok THEN [ok |-> FALSE, err |-> "InvalidCode", rest |-> bytes]
    ELSE code_reason(bytes, CodeFromRaw(raw.n))

CodeFromBytes(bytes) ==
    IF Len(bytes) < 3 THEN [ok |-> FALSE, err |-> "InvalidCode", rest |-> bytes]
    ELSE IF Len(bytes) < 5 THEN [ok |-> FALSE, err |-> "MalformedCode", rest |-> bytes]
    ELSE code_raw(bytes, ParseUnsigned(Take(bytes, 3), U16_MAX))

(***************************************************************************)
(* request.rs, response.rs: Request and Response.  What from_bytes         *)
(* returns is [kind |-> "Ok", ...] with the message's members and the      *)
(* cursor left (rest), [kind |-> "Err", err, rest], or, when the call      *)
(* panics instead of returning, [kind |-> "Panic"].                        *)
(***************************************************************************)
URIChars == {c \in Byte : URI_MAP(c) # 0}

\* StartLine::from_bytes: [ok, method, path, version, rest] or [ok, err, rest].
\* Each operator is the function from one statement on, given what the
\* statement before it did.
start_line_crlf(method, path, version, crlf) ==
    IF ~crlf.ret THEN [ok |-> FALSE, err |-> "MalformedStartLine", rest |-> crlf.rest]
    ELSE [ok |-> TRUE, method |-> method, path |-> path, version |-> version,
          rest |-> crlf.rest]

start_line_version(method, path, version) ==
    IF ~version.ok THEN [ok |-> FALSE, err |-> "VersionMalformed", rest |-> version.rest]
    ELSE start_line_crlf(method, path, version.version, advance_bytes(version.rest, CRLF))

start_line_space2(method, path, space) ==
    IF ~space.ret THEN [ok |-> FALSE, err |-> "MalformedStartLine", rest |-> space.rest]
    ELSE start_line_version(method, path, VersionFromBytes(space.rest))

start_line_path(method, path) ==
    IF path.ret = <<>> THEN [ok |-> FALSE, err |-> "InvalidResource", rest |-> path.rest]
    ELSE start_line_space2(method, path.ret, advance_byte(path.rest, SP))

start_line_space1(method, space) ==
    IF ~space.ret THEN [ok |-> FALSE, err |-> "MalformedStartLine", rest |-> space.rest]
    ELSE start_line_path(method, split_while(space.rest, URIChars))

start_line_method(method) ==
    IF ~method.some THEN [ok |-> FALSE, err |-> "MethodUnsupported", rest |-> method.rest]
    ELSE start_line_space1(method.method, advance_byte(method.rest, SP))

StartLineFromBytes(bytes) == start_line_method(MethodFromBytes(bytes))

CONTENT_LENGTH == <<67, 111, 110, 116, 101, 110, 116, 45, 76, 101, 110, 103, 116, 104>>    \* Content-Length

\* The content_length that Request::from_bytes and Response::from_bytes read
\* from the headers: the first value of Content-Length parsed as a usize,
\* 0 when the header is missing, is no UTF-8 or does not parse.  (A str that
\* is no ASCII does not parse either, so from_utf8 decides nothing.)
parse_or_zero(n) == IF n.ok THEN n.n ELSE 0

content_length_of(c) ==
    IF c.some THEN parse_or_zero(ParseUnsigned(c.values.first.value, USIZE_MAX)) ELSE 0

content_length(headers) == content_length_of(FieldsGet(headers, CONTENT_LENGTH))

\* SplitBody as it would be if it let bytes beyond the declared length pass.
SplitBodyLenient(bytes, length) ==
    IF length > Len(bytes) THEN [kind |-> "Panic"]
    ELSE [kind |-> "Ok", body |-> Take(bytes, length), rest |-> Drop(bytes, length)]

\* SplitBody as it would be with its comparison turned around.
SplitBodyFlipped(bytes, length) ==
    IF length > Len(bytes)
    THEN [kind |-> "Err", err |-> <<"BodyLongerThanStream">>, rest |-> bytes]
    ELSE [kind |-> "Ok", body |-> Take(bytes, length), rest |-> Drop(bytes, length)]

\* The comparison of content_length with the cursor and Bytes::split_to,
\* which panics when asked for more bytes than the cursor holds.
\* [kind |-> "Ok", body, rest], [kind |-> "Err", err, rest] or [kind |-> "Panic"].
SplitBody(bytes, length) ==
    IF length < Len(bytes)
    THEN [kind |-> "Err", err |-> <<"BodyLongerThanStream">>, rest |-> bytes]
    ELSE IF length > Len(bytes) THEN [kind |-> "Panic"]
    ELSE [kind |-> "Ok", body |-> Take(bytes, length), rest |-> Drop(bytes, length)]

\* Request::from_bytes from the parse of the headers on.
request_body(start, headers, body) ==
    IF body.kind # "Ok" THEN body
    ELSE [kind |-> "Ok", method |-> start.method, path |-> start.path,
          version |-> start.version, headers |-> headers,
          body |-> body.body, trailers |-> FieldsNew, rest |-> body.rest]

request_headers(start, headers) ==
    IF ~headers.ok
    THEN [kind |-> "Err", err |-> <<"Header", headers.err>>, rest |-> headers.rest]
    ELSE request_body(start, headers.fields,
                      SplitBody(headers.rest, content_length(headers.fields)))

request_start(start) ==
    IF ~start.ok THEN [kind |-> "Err", err |-> <<start.err>>, rest |-> start.rest]
    ELSE request_headers(start, FieldsFromBytes(start.rest))

RequestFromBytes(bytes) == request_start(StartLineFromBytes(bytes))

\* Response::from_bytes, each operator from one statement on.
response_body(version, code, headers, body) ==
    IF body.kind # "Ok" THEN body
    ELSE [kind |-> "Ok", version |-> version, code |-> code,
          headers |-> headers, body |-> body.body, trailers |-> FieldsNew,
          rest |-> body.rest]

response_headers(version, code, headers) ==
    IF ~headers.ok
    THEN [kind |-> "Err", err |-> <<"Header", headers.err>>, rest |-> headers.rest]
    ELSE response_body(version, code, headers.fields,
                       SplitBody(headers.rest, content_length(headers.fields)))

response_crlf(version, code, crlf) ==
    IF ~crlf.ret THEN [kind |-> "Err", err |-> <<"MalformedStartLine">>, rest |-> crlf.rest]
    ELSE response_headers(version, code, FieldsFromBytes(crlf.rest))

response_code(version, code) ==
    IF ~code.ok THEN [kind |-> "Err", err |-> <<"Code", code.err>>, rest |-> code.rest]
    ELSE response_crlf(version, code.code, advance_bytes(code.rest, CRLF))

response_space(version, space) ==
    IF ~space.ret THEN [kind |-> "Err", err |-> <<"MalformedStartLine">>, rest |-> space.rest]
    ELSE response_code(version, CodeFromBytes(space.rest))

response_version(version) ==
    IF ~version.ok THEN [kind |-> "Err", err |-> <<"VersionMalformed">>, rest |-> version.rest]
    ELSE response_space(version.version, advance_byte(version.rest, SP))

ResponseFromBytes(bytes) == response_version(VersionFromBytes(bytes))

\* usize::to_string.
RECURSIVE to_string(_)
to_string(n) ==
    IF n < 10 THEN <<48 + n>> ELSE to_string(n \div 10) \o <<48 + (n % 10)>>

(***************************************************************************)
(* SpecMsg: Request::from_bytes and Response::from_bytes on a connection   *)
(* buffer: a start line, a header block and body bytes.                    *)
(***************************************************************************)
\* The most body bytes a buffer of SpecMsg carries.
MaxBody == 4
\* The largest Content-Length a header block of SpecMsg declares in 0..MaxDeclared.
MaxDeclared == 4

StartLines ==
    { <<71, 69, 84, 32, 47, 32, 72, 84, 84, 80, 47, 49, 46, 49, 13, 10>>,         \* GET / HTTP/1.1
      <<80, 79, 83, 84, 32, 47, 97, 32, 72, 84, 84, 80, 47, 49, 13, 10>>,         \* POST /a HTTP/1
      <<72, 69, 65, 68, 32, 47, 32, 72, 84, 84, 80, 47, 49, 46, 49>>,            \* HEAD / HTTP/1.1 without its CRLF
      <<66, 82, 69, 87, 32, 47, 32, 72, 84, 84, 80, 47, 49, 46, 49, 13, 10>>,        \* BREW / HTTP/1.1: no method of the library
      <<71, 69, 84, 32, 32, 72, 84, 84, 80, 47, 49, 46, 49, 13, 10>>,          \* GET, two spaces, HTTP/1.1: no path
      <<72, 84, 84, 80, 47, 49, 46, 49, 32, 50, 48, 48, 32, 79, 75, 13, 10>>,        \* HTTP/1.1 200 OK
      <<72, 84, 84, 80, 47, 49, 32, 52, 48, 52, 32, 78, 111, 116, 32, 70, 111, 117, 110, 100, 13, 10>>,   \* HTTP/1 404 Not Found
      <<72, 84, 84, 80, 47, 49, 46, 49, 32, 50, 57, 57, 32, 79, 100, 100, 13, 10>> }      \* HTTP/1.1 299 Odd: no code of the library

HOST_LINE == <<72, 111, 115, 116, 58, 32, 97, 13, 10>>    \* Host: a

ContentLengthLine(text) == CONTENT_LENGTH \o <<COLON, SP>> \o text \o CRLF

HeaderBlocks ==
    { CRLF }
    \cup { ContentLengthLine(to_string(d)) \o CRLF : d \in 0..MaxDeclared }
    \cup { HOST_LINE \o ContentLengthLine(to_string(d)) \o CRLF : d \in 0..MaxDeclared }
    \cup { ContentLengthLine(<<43, 50>>) \o CRLF,      \* +2
           ContentLengthLine(<<49, 44, 32, 50>>) \o CRLF,    \* 1, 2
           ContentLengthLine(<<50>>) \o ContentLengthLine(<<49>>) \o CRLF,
           ContentLengthLine(<<50, 120>>) \o CRLF,      \* 2x
           ContentLengthLine(<<50, 32>>) \o CRLF,      \* 2 and a space
           ContentLengthLine(<<34, 50, 34>>) \o CRLF,   \* "2"
           <<99, 111, 110, 116, 101, 110, 116, 45, 108, 101, 110, 103, 116, 104, 58, 32, 50, 13, 10, 13, 10>>,          \* content-length: 2
           <<72, 111, 115, 116, 32, 97, 13, 10, 13, 10>>,                     \* Host a: no colon
           HOST_LINE }                                  \* no blank line

BODY == <<104, 101, 108, 108, 111, 32, 119, 111, 114, 108, 100, 33>>    \* hello world!

Bodies == { Take(BODY, k) : k \in 0..MaxBody }

Streams == { l \o h \o b : l \in StartLines, h \in HeaderBlocks, b \in Bodies }

InitMsg ==
    /\ stream \in Streams
    /\ message = NONE
    /\ pc = "received"
    /\ fields = NONE /\ buffer = NONE /\ parsed = NONE /\ echo = NONE /\ lines = NONE
    /\ src = NONE /\ config = NONE /\ value = NONE /\ unquoted = NONE /\ requoted = NONE
    /\ scan = NONE /\ wire = NONE

ParseRequest ==
    /\ pc = "received"
    /\ message' = RequestFromBytes(stream)
    /\ pc' = "request"
    /\ UNCHANGED <<stream, fieldsVars, valueVars, config, scanVars>>

ParseResponse ==
    /\ pc = "received"
    /\ message' = ResponseFromBytes(stream)
    /\ pc' = "response"
    /\ UNCHANGED <<stream, fieldsVars, valueVars, config, scanVars>>

NextMsg == ParseRequest \/ ParseResponse

SpecMsg == InitMsg /\ [][NextMsg]_vars

(***************************************************************************)
(* Claims C1..C3, under SpecMsg.                                           *)
(***************************************************************************)
FieldErrors ==
    {"Malformed", "IncorrectlyTerminated", "NameMissing", "ValueTooLong",
     "ValueInvalidToken", "ValueInvalidQuotedText", "InvalidCommentCharacter"}

\* The values of request::ParsingError and of response::ParsingError.
RequestErrors ==
    {<<"VersionMalformed">>, <<"MethodUnsupported">>, <<"MalformedStartLine">>,
     <<"InvalidResource">>, <<"BodyLongerThanStream">>}
    \cup {<<"Header", e>> : e \in FieldErrors} \cup {<<"Trailer", e>> : e \in FieldErrors}

ResponseErrors ==
    {<<"VersionMalformed">>, <<"MalformedStartLine">>, <<"BodyLongerThanStream">>}
    \cup {<<"Code", e>> : e \in {"InvalidCode", "MalformedCode"}}
    \cup {<<"Header", e>> : e \in FieldErrors} \cup {<<"Trailer", e>> : e \in FieldErrors}

Returned == pc \in {"request", "response"}

\* The number of bytes of s up to and including the first occurrence of the
\* bytes of sep, Len(s) + 1 if there is none.
EndOfFirst(s, sep) ==
    LET at == {k \in 1..Len(s) : StartsWith(Drop(s, k - 1), sep)}
    IN  IF at = {} THEN Len(s) + 1
        ELSE (CHOOSE k \in at : \A j \in at : k <= j) + Len(sep) - 1

\* The bytes of s after the blank line that ends its header block.
AfterHeaders(s) == Drop(s, EndOfFirst(s, CRLF \o CRLF))

\* The declared content length of a Fields: its first Content-Length value
\* as a decimal integer, 0 when there is none or it is no decimal integer.
Declared(headers) ==
    LET at == {k \in 1..Len(headers) : headers[k].name = CONTENT_LENGTH}
        first == headers[CHOOSE k \in at : \A j \in at : k <= j].values.first.value
    IN  IF at # {} /\ ParseUnsigned(first, USIZE_MAX).ok
        THEN ParseUnsigned(first, USIZE_MAX).n ELSE 0

\* C1: for every input, Request::from_bytes and Response::from_bytes return a
\* parsed message or one of the typed ParsingError values; no input, one
\* whose Content-Length is larger than the number of bytes after the headers
\* included, makes the parse panic.
C1_ParseReturns ==
    Returned =>
        \/ message.kind = "Ok"
        \/ /\ message.kind = "Err"
           /\ message.err \in (IF pc = "request" THEN RequestErrors ELSE ResponseErrors)

\* C2: whenever Request::from_bytes or Response::from_bytes succeeds, the body
\* is exactly the content_length bytes that follow the blank line ending the
\* headers, content_length being the first Content-Length value as a decimal
\* integer (0 when missing or unparsable), and no input byte is left over.
C2_BodyIsDeclaredBytes ==
    (Returned /\ message.kind = "Ok") =>
        /\ Len(message.body) = Declared(message.headers)
        /\ message.body = Take(AfterHeaders(stream), Declared(message.headers))
        /\ message.body = AfterHeaders(stream)
        /\ message.rest = <<>>

C2_Witness ==
    /\ pc = "request"
    /\ message.kind = "Ok"
    /\ Len(message.body) >= 2
    /\ Len(message.headers) = 2

\* Whether from_bytes got past the start line and the headers.
HeadParsed ==
    \/ message.kind \in {"Ok", "Panic"}
    \/ message.kind = "Err" /\ message.err = <<"BodyLongerThanStream">>

\* The Fields of the header block of s, which follows the start line.
HeadersOf(s) == FieldsFromBytes(Drop(s, EndOfFirst(s, CRLF))).fields

MaxValues == 2

\* A field name one byte longer than field_name_from_bytes takes.
LongName == [i \in 1..(NAME_CAP + 1) |-> 88]

FieldNames ==
    { <<65>>,                     \* A
      <<68, 97, 116, 101>>,        \* Date
      <<95, 97>>,                 \* _a
      LongName }

FieldValues ==
    { <<98>>,                              \* b
      <<>>,
      <<34, 120, 44, 121, 34>>,          \* "x,y"
      <<120, 44, 121>>,                  \* x,y
      <<32, 98>>,                          \* a space and b
      <<40, 99, 41>>,                     \* (c)
      <<34, 120>>,                       \* "x without its closing quote
      <<34, 128, 34>> }                 \* byte 0x80 in quotes

\* The number of values of a Fields.
CountValues(fs) ==
    IF fs = <<>> THEN 0
    ELSE LET n == [k \in 1..Len(fs) |-> 1 + Len(fs[k].values.extra)]
             sum[k \in 0..Len(fs)] == IF k = 0 THEN 0 ELSE sum[k - 1] + n[k]
         IN  sum[Len(fs)]

InitFields ==
    /\ fields = FieldsNew
    /\ buffer = NONE /\ parsed = NONE /\ echo = NONE /\ lines = NONE
    /\ pc = "building"
    /\ stream = NONE /\ message = NONE
    /\ src = NONE /\ config = NONE /\ value = NONE /\ unquoted = NONE /\ requoted = NONE
    /\ scan = NONE /\ wire = NONE

AddHeaderValue ==
    /\ pc = "building"
    /\ CountValues(fields) < MaxValues
    /\ \E name \in FieldNames, bytes \in FieldValues :
            fields' = add_header_value(fields, name, bytes)
    /\ UNCHANGED <<buffer, parsed, echo, lines, pc, msgVars, valueVars, config, scanVars>>

ToBuffer ==
    /\ pc = "building"
    /\ buffer' = FieldsToBuffer(fields)
    /\ pc' = "written"
    /\ UNCHANGED <<fields, parsed, echo, lines, msgVars, valueVars, config, scanVars>>

FromBytes ==
    /\ pc = "written"
    /\ parsed' = FieldsFromBytes(buffer)
    /\ pc' = "parsed"
    /\ UNCHANGED <<fields, buffer, echo, lines, msgVars, valueVars, config, scanVars>>

NextFields == AddHeaderValue \/ ToBuffer \/ FromBytes

SpecFields == InitFields /\ [][NextFields]_vars

(***************************************************************************)
(* Claim C4, under SpecFields.                                             *)
(***************************************************************************)
\* A non-empty string of token characters.
TokenString(name) == name # <<>> /\ \A i \in 1..Len(name) : TCHAR_MAP(name[i]) # 0

\* bytes is a whole value under cfg: followed by the end of a line, it is
\* what Value::from_bytes reads.
CompleteValue(bytes, cfg) ==
    LET v == ValueFromBytes(bytes \o <<CR>>, cfg)
    IN  v.ok /\ v.value.value = bytes

WellFormedPair(name, bytes) ==
    /\ TokenString(name)
    /\ IsAsciiAlphanumeric(name[1])
    /\ CompleteValue(bytes, config_for_name(name))
    /\ (bytes = <<>> \/ bytes[1] # SP)

\* The bytes of the values of a Values, in order.
ValueBytes(vs) == [i \in 1..(1 + Len(vs.extra)) |-> iter_refs(vs)[i].value]

WellFormedFields(fs) ==
    \A k \in 1..Len(fs) : \A i \in 1..(1 + Len(fs[k].values.extra)) :
        WellFormedPair(fs[k].name, ValueBytes(fs[k].values)[i])

\* The same names in the same order with byte-identical values.
SameFields(a, b) ==
    /\ Len(a) = Len(b)
    /\ \A k \in 1..Len(a) :
        a[k].name = b[k].name /\ ValueBytes(a[k].values) = ValueBytes(b[k].values)

RoundTrips == parsed.ok /\ SameFields(parsed.fields, fields)

\* C4 as claimed: for every Fields with zero or more entries built from
\* well-formed name/value pairs, Fields::from_bytes(fields.to_buffer())
\* succeeds and yields the same names in the same order with byte-identical
\* values.
C4_RoundTripOfAnyFields ==
    (pc = "parsed" /\ WellFormedFields(fields)) => RoundTrips

\* Names no longer than field_name_from_bytes takes, values shorter than the
\* ceiling of Value::from_bytes, and one value in each date field.
WithinLimits(fs) ==
    \A k \in 1..Len(fs) :
        /\ Len(fs[k].name) <= NAME_CAP
        /\ \A i \in 1..(1 + Len(fs[k].values.extra)) :
                Len(ValueBytes(fs[k].values)[i]) < MAX_LEN
        /\ (fs[k].name \in DATE_FIELDS => fs[k].values.extra = <<>>)

\* C4 amended: for every Fields with one or more entries built from
\* well-formed name/value pairs, with names of at most 1024 bytes, values
\* shorter than 100,000 bytes and a single value in each date field,
\* Fields::from_bytes(fields.to_buffer()) succeeds and yields the same names
\* in the same order with byte-identical values.
C4_RoundTripOfEntries ==
    (pc = "parsed" /\ fields # <<>> /\ WellFormedFields(fields) /\ WithinLimits(fields))
        => RoundTrips

C4_Witness ==
    /\ pc = "parsed"
    /\ Len(fields) = 2
    /\ fields[1].name \in DATE_FIELDS
    /\ fields[2].values.first.value = <<34, 128, 34>>
    /\ WellFormedFields(fields) /\ WithinLimits(fields)
    /\ RoundTrips

(***************************************************************************)
(* SpecWire: a buffer of header lines is received, parsed with             *)
(* Fields::from_bytes and the Fields parsed written back with to_buffer.   *)
(* A line is [name, colon, values, comma]: its name, the bytes between     *)
(* the name and the values, the values, and the bytes between two values.  *)
(***************************************************************************)
\* The most header lines a buffer of SpecWire carries.
MaxLines == 2

RECURSIVE JoinValues(_, _)
JoinValues(values, comma) ==
    IF Len(values) = 0 THEN <<>>
    ELSE IF Len(values) = 1 THEN values[1]
    ELSE values[1] \o comma \o JoinValues(Tail(values), comma)

LineBytes(line) == line.name \o line.colon \o JoinValues(line.values, line.comma) \o CRLF

RECURSIVE LinesBytes(_)
LinesBytes(ls) == IF ls = <<>> THEN <<>> ELSE LineBytes(ls[1]) \o LinesBytes(Tail(ls))

\* The header block of the lines ls: the lines and the blank line.
WireOf(ls) == LinesBytes(ls) \o CRLF

CanonicalLine(name, values) ==
    [name |-> name, colon |-> <<COLON, SP>>, values |-> values, comma |-> <<COMMA, SP>>]

WireLines ==
    { CanonicalLine(<<72, 111, 115, 116>>, << <<101, 120, 97, 109, 112, 108, 101, 46, 99, 111, 109>> >>),
      CanonicalLine(<<65, 99, 99, 101, 112, 116>>, << <<42, 47, 42>> >>),
      CanonicalLine(<<65>>, << <<98>>, <<99>> >>),                      \* A: b, c
      CanonicalLine(<<65>>, << <<100>> >>),                             \* A: d
      CanonicalLine(<<68, 97, 116, 101>>, << <<83, 97, 116, 44, 32, 48, 52, 32, 77, 97, 121, 32, 49, 57, 57, 54>> >>),
      CanonicalLine(<<66>>, << <<34, 120, 44, 32, 121, 34>>, <<40, 99, 41>> >>),   \* B: "x, y", (c)
      CanonicalLine(<<67>>, << <<>>, <<100>> >>),                       \* C: , d
      CanonicalLine(<<95, 97>>, << <<98>> >>),                          \* _a: b
      CanonicalLine(LongName, << <<98>> >>),
      CanonicalLine([i \in 1..NAME_CAP |-> 88], << <<98>> >>),      \* a name of 1024 bytes
      CanonicalLine(<<>>, << <<120>> >>),                               \* : x
      CanonicalLine(<<69>>, << <<SP, 98>> >>),                          \* E:  b
      CanonicalLine(<<70>>, << <<34, 120>> >>),                         \* F: "x
      [name |-> <<65>>, colon |-> <<COLON>>, values |-> << <<98>> >>, comma |-> <<COMMA, SP>>],
      [name |-> <<65>>, colon |-> <<COLON, SP>>, values |-> << <<98>>, <<99>> >>,
       comma |-> <<COMMA>>],
      [name |-> <<65>>, colon |-> <<SP>>, values |-> << <<98>> >>, comma |-> <<COMMA, SP>>],
      \* G: b,  c, "x, y"
      CanonicalLine(<<71>>, << <<98>>, <<SP, 99>>, <<34, 120, 44, 32, 121, 34>> >>),
      \* Date: Fri, 09 Jun 2023 18:36:58 GMT
      CanonicalLine(<<68, 97, 116, 101>>, << <<70, 114, 105, 44, 32, 48, 57, 32, 74, 117, 110, 32, 50, 48, 50, 51, 32, 49, 56, 58, 51, 54, 58, 53, 56, 32, 71, 77, 84>> >>),
      \* date: Fri, 09 Jun 2023 18:36:58 GMT
      CanonicalLine(<<100, 97, 116, 101>>, << <<70, 114, 105>>, <<48, 57, 32, 74, 117, 110, 32, 50, 48, 50, 51, 32, 49, 56, 58, 51, 54, 58, 53, 56, 32, 71, 77, 84>> >>),
      \* Expires: Fri, 09
      CanonicalLine(<<69, 120, 112, 105, 114, 101, 115>>, << <<70, 114, 105, 44, 32, 48, 57>> >>),
      \* Last-Modified: Fri,09
      CanonicalLine(<<76, 97, 115, 116, 45, 77, 111, 100, 105, 102, 105, 101, 100>>, << <<70, 114, 105, 44, 48, 57>> >>) }

WireInputs == UNION { [1..n -> WireLines] : n \in 0..MaxLines }

InitWire ==
    /\ lines \in WireInputs
    /\ buffer = WireOf(lines)
    /\ parsed = NONE /\ echo = NONE /\ fields = NONE
    /\ pc = "wire"
    /\ stream = NONE /\ message = NONE
    /\ src = NONE /\ config = NONE /\ value = NONE /\ unquoted = NONE /\ requoted = NONE
    /\ scan = NONE /\ wire = NONE

WireFromBytes ==
    /\ pc = "wire"
    /\ parsed' = FieldsFromBytes(buffer)
    /\ pc' = "wire_parsed"
    /\ UNCHANGED <<fields, buffer, echo, lines, msgVars, valueVars, config, scanVars>>

WireToBuffer ==
    /\ pc = "wire_parsed"
    /\ parsed.ok
    /\ echo' = FieldsToBuffer(parsed.fields)
    /\ pc' = "echoed"
    /\ UNCHANGED <<fields, buffer, parsed, lines, msgVars, valueVars, config, scanVars>>

NextWire == WireFromBytes \/ WireToBuffer

SpecWire == InitWire /\ [][NextWire]_vars

(***************************************************************************)
(* Claims C5 and C10, under SpecWire.                                      *)
(***************************************************************************)
\* A line in canonical form: a field name, then a colon and a space, then
\* the values, each a whole value under the field's configuration with no
\* leading space, joined by a comma and a space.
InCanonicalForm(line) ==
    /\ TokenString(line.name)
    /\ line.colon = <<COLON, SP>>
    /\ line.comma = <<COMMA, SP>>
    /\ \A i \in 1..Len(line.values) :
        /\ CompleteValue(line.values[i], config_for_name(line.name))
        /\ (line.values[i] = <<>> \/ line.values[i][1] # SP)

\* Lines in canonical form, one or more, no two with the same name.
CanonicalLines(ls) ==
    /\ ls # <<>>
    /\ \A k \in 1..Len(ls) : InCanonicalForm(ls[k])
    /\ \A j, k \in 1..Len(ls) : j # k => ls[j].name # ls[k].name

Reproduced == parsed.ok /\ (pc = "echoed" => echo = buffer)

\* C5 as claimed: for wire bytes in canonical form (a non-repeated field
\* name followed by a colon and a space, list values joined by a comma and a
\* space, CRLF after each line and a final blank line), Fields::from_bytes
\* followed by Fields::to_buffer reproduces the input byte for byte.
C5_CanonicalWireReproduced ==
    (pc # "wire" /\ CanonicalLines(lines)) => Reproduced

\* Names that start with an ASCII alphanumeric and are no longer than
\* field_name_from_bytes takes, values shorter than the ceiling of
\* Value::from_bytes.
ParsableLines(ls) ==
    \A k \in 1..Len(ls) :
        /\ IsAsciiAlphanumeric(ls[k].name[1])
        /\ Len(ls[k].name) <= NAME_CAP
        /\ \A i \in 1..Len(ls[k].values) : Len(ls[k].values[i]) < MAX_LEN

\* C5 amended: for wire bytes in canonical form with one or more field
\* lines, whose names start with an ASCII alphanumeric and have at most 1024
\* bytes and whose values are shorter than 100,000 bytes, Fields::from_bytes
\* followed by Fields::to_buffer reproduces the input byte for byte.
C5_ParsableWireReproduced ==
    (pc # "wire" /\ CanonicalLines(lines) /\ ParsableLines(lines)) => Reproduced

C5_Witness ==
    /\ pc = "echoed"
    /\ Len(lines) = 2
    /\ CanonicalLines(lines) /\ ParsableLines(lines)
    /\ Len(lines[2].values) = 2
    /\ echo = buffer

\* C10: a header line whose field name is empty, such as a line that starts
\* with a colon, makes Fields::from_bytes fail with NameMissing.
C10_EmptyNameIsNameMissing ==
    (pc # "wire" /\ \E k \in 1..Len(lines) :
            /\ lines[k].name = <<>>
            /\ \A j \in 1..(k - 1) : InCanonicalForm(lines[j]) /\ ParsableLines(<<lines[j]>>))
        => (~parsed.ok /\ parsed.err = "NameMissing")

(***************************************************************************)
(* SpecValue: a Value is built from a caller's bytes with from_unquoted,   *)
(* or read from the wire with from_bytes; it is unquoted, and the bytes    *)
(* unquoted from a wire value are stored again with from_unquoted.         *)
(***************************************************************************)
\* The most bytes of a string of SpecValue, the quotes around it not counted.
MaxSrc == 3

\* a, comma, double quote, backslash, parentheses, the control byte CR and the
\* opaque byte 0x80.
SrcBytes == {97, COMMA, DQUOTE, BACKSLASH, LPAREN, RPAREN, CR, 128}

SrcStrings == UNION { [1..n -> SrcBytes] : n \in 0..MaxSrc }

\* The two quoted values of the test QUOTED_STRINGIFIED.
QUOTED_DATE == <<34, 83, 97, 116, 44, 32, 48, 52, 32, 77, 97, 121, 32, 49, 57, 57, 54, 34>>
QUOTED_BACKSLASH == <<34, 119, 105, 116, 104, 32, 97, 32, 92, 92, 32, 98, 97, 99, 107, 115, 108, 97, 115, 104, 32, 97, 110, 100, 32, 97, 32, 92, 34, 32, 113, 117, 111, 116, 101, 34>>

Sources ==
    SrcStrings \cup { <<DQUOTE>> \o s \o <<DQUOTE>> : s \in SrcStrings }
        \cup { QUOTED_DATE, QUOTED_BACKSLASH }

\* The configurations of config_for_name, and others a caller can make.
ValueConfigs ==
    { config_for_name(<<65>>), config_for_name(<<68, 97, 116, 101>>),
      [map |-> "TOKEN_MAP", comments |-> FALSE, quotes |-> TRUE, commas |-> FALSE],
      [map |-> "DATE_MAP", comments |-> FALSE, quotes |-> TRUE, commas |-> TRUE],
      [map |-> "TOKEN_MAP", comments |-> TRUE, quotes |-> FALSE, commas |-> TRUE] }

InitValue ==
    /\ src \in Sources
    /\ config \in ValueConfigs
    /\ value = NONE /\ unquoted = NONE /\ requoted = NONE
    /\ pc = "src"
    /\ stream = NONE /\ message = NONE
    /\ fields = NONE /\ buffer = NONE /\ parsed = NONE /\ echo = NONE /\ lines = NONE
    /\ scan = NONE /\ wire = NONE

\* The caller stores its bytes: Value::from_unquoted(src, config).
FromUnquoted ==
    /\ pc = "src"
    /\ value' = ValueFromUnquoted(src, config)
    /\ pc' = "built"
    /\ UNCHANGED <<src, config, unquoted, requoted, msgVars, fieldsVars, scanVars>>

\* What FromWire leaves, r being what Value::from_bytes returned.
from_wire(r) ==
    /\ value' = (IF r.ok THEN r.value ELSE [err |-> r.err])
    /\ pc' = (IF r.ok THEN "parsed" ELSE "rejected")

\* The bytes arrive as the value of a header line: Value::from_bytes.
FromWire ==
    /\ pc = "src"
    /\ from_wire(ValueFromBytes(src \o CRLF, config))
    /\ UNCHANGED <<src, config, unquoted, requoted, msgVars, fieldsVars, scanVars>>

Unquote ==
    /\ pc \in {"built", "parsed"}
    /\ unquoted' = ValueUnquote(value, config)
    /\ pc' = (IF pc = "built" THEN "built_unquoted" ELSE "parsed_unquoted")
    /\ UNCHANGED <<src, config, value, requoted, msgVars, fieldsVars, scanVars>>

\* The bytes unquoted from a wire value are stored again.
Requote ==
    /\ pc = "parsed_unquoted"
    /\ unquoted.ok
    /\ requoted' = ValueFromUnquoted(unquoted.bytes, config)
    /\ pc' = "requoted"
    /\ UNCHANGED <<src, config, value, unquoted, msgVars, fieldsVars, scanVars>>

NextValue == FromUnquoted \/ FromWire \/ Unquote \/ Requote

SpecValue == InitValue /\ [][NextValue]_vars

(***************************************************************************)
(* Claims C6, C7 and C8, under SpecValue.                                  *)
(***************************************************************************)
\* C6: for every byte string s, control bytes and bytes >= 0x80 included, and
\* every configuration with quotes enabled,
\* Value::from_unquoted(s, cfg).unquote(cfg) returns Ok(s).
C6_UnquoteRecoversSource ==
    (pc = "built_unquoted" /\ config.quotes) => (unquoted.ok /\ unquoted.bytes = src)

\* s with a backslash before each byte the quoted-text table rejects.
RECURSIVE Escaped(_)
Escaped(s) ==
    IF s = <<>> THEN <<>>
    ELSE (IF QUOTED_TEXT_MAP(s[1]) = 0 THEN <<BACKSLASH, s[1]>> ELSE <<s[1]>>)
            \o Escaped(Tail(s))

\* s without its escape-introducing backslashes.
RECURSIVE Unescaped(_)
Unescaped(s) ==
    IF s = <<>> THEN <<>>
    ELSE IF s[1] = BACKSLASH /\ Len(s) >= 2 THEN <<s[2]>> \o Unescaped(Drop(s, 2))
    ELSE <<s[1]>> \o Unescaped(Tail(s))

\* The content of the quoted string v: what is between its quotes, unescaped.
ContentOf(v) == Unescaped(SubSeq(v, 2, Len(v) - 1))

\* v is one quoted string of ASCII bytes in which a backslash precedes exactly
\* the bytes the quoted-text table rejects.
QuotedString(v) ==
    /\ Len(v) >= 2
    /\ \A i \in 1..Len(v) : v[i] < 128
    /\ v = <<DQUOTE>> \o Escaped(ContentOf(v)) \o <<DQUOTE>>

RECURSIVE StorableFrom(_, _, _, _)
StorableFrom(s, cfg, i, depth) ==
    IF i > Len(s) THEN depth = 0
    ELSE IF depth > 0 THEN
        IF CTEXT_MAP(s[i]) # 0 THEN StorableFrom(s, cfg, i + 1, depth)
        ELSE IF s[i] = LPAREN THEN StorableFrom(s, cfg, i + 1, depth + 1)
        ELSE IF s[i] = RPAREN THEN StorableFrom(s, cfg, i + 1, depth - 1)
        ELSE FALSE
    ELSE IF MapAt(cfg.map, s[i]) # 0 THEN StorableFrom(s, cfg, i + 1, depth)
    ELSE IF cfg.comments /\ s[i] = LPAREN THEN StorableFrom(s, cfg, i + 1, 1)
    ELSE FALSE

StorableUnquoted(s, cfg) == StorableFrom(s, cfg, 1, 0)

RECURSIVE KeptFrom(_, _, _, _, _, _, _)
KeptFrom(s, cfg, parens, i, quoted, escaped, depth) ==
    IF i > Len(s) THEN <<>>
    ELSE IF escaped THEN <<s[i]>> \o KeptFrom(s, cfg, parens, i + 1, quoted, FALSE, depth)
    ELSE IF quoted THEN
        IF s[i] = BACKSLASH THEN KeptFrom(s, cfg, parens, i + 1, TRUE, TRUE, depth)
        ELSE IF s[i] = DQUOTE THEN KeptFrom(s, cfg, parens, i + 1, FALSE, FALSE, depth)
        ELSE <<s[i]>> \o KeptFrom(s, cfg, parens, i + 1, TRUE, FALSE, depth)
    ELSE IF cfg.comments /\ s[i] = LPAREN /\ (depth > 0 \/ MapAt(cfg.map, LPAREN) = 0)
        THEN (IF parens THEN <<>> ELSE <<s[i]>>)
                \o KeptFrom(s, cfg, parens, i + 1, FALSE, FALSE, depth + 1)
    ELSE IF depth > 0 /\ s[i] = RPAREN
        THEN (IF parens THEN <<>> ELSE <<s[i]>>)
                \o KeptFrom(s, cfg, parens, i + 1, FALSE, FALSE, depth - 1)
    ELSE IF depth = 0 /\ cfg.quotes /\ s[i] = DQUOTE /\ MapAt(cfg.map, DQUOTE) = 0
        THEN KeptFrom(s, cfg, parens, i + 1, TRUE, FALSE, depth)
    ELSE <<s[i]>> \o KeptFrom(s, cfg, parens, i + 1, FALSE, FALSE, depth)

\* C8: Value::unquote returns the stored bytes with exactly the structural
\* bytes removed (the opening and closing double quotes, each
\* escape-introducing backslash, comment parentheses) and with every escaped,
\* visible and opaque (>= 0x80) byte kept, in original order.  The formula
\* lets the parentheses of comments be kept or removed.
C8_UnquoteKeepsContent ==
    (pc \in {"built_unquoted", "parsed_unquoted"} /\ unquoted.ok) =>
        \/ unquoted.bytes = KeptFrom(value.value, config, TRUE, 1, FALSE, FALSE, 0)
        \/ unquoted.bytes = KeptFrom(value.value, config, FALSE, 1, FALSE, FALSE, 0)

(***************************************************************************)
(* SpecScan: the loop of Value::from_bytes, one iteration a step, over a   *)
(* cursor that holds the bytes head, then count bytes (each the byte fill) *)
(* and then the bytes tail.                                                *)
(***************************************************************************)
ScanCounts == {0, 1, MAX_LEN - 1, MAX_LEN, MAX_LEN + 1}

ScanTails == {CRLF, <<>>}

ScanHeads ==
    { <<>>,
      <<40, 97, 98, 99>>,           \* (abc
      <<34, 97, 98, 99>>,           \* "abc
      <<97, 1>> }                \* a and the control byte 0x01

\* bytes.len() of the cursor w.
WireLen(w) == Len(w.head) + w.count + Len(w.tail)

\* bytes[i] of the cursor w.
ByteAt(w, i) ==
    IF i < Len(w.head) THEN w.head[i + 1]
    ELSE IF i < Len(w.head) + w.count THEN w.fill
    ELSE w.tail[i - Len(w.head) - w.count + 1]

InitScan ==
    /\ wire \in [head : ScanHeads, fill : {97}, count : ScanCounts, tail : ScanTails]
    /\ wire.head = <<>> \/ wire.count <= 1
    /\ config = config_for_name(<<65>>)
    /\ scan = ScanNew
    /\ pc = "scanning"
    /\ stream = NONE /\ message = NONE
    /\ fields = NONE /\ buffer = NONE /\ parsed = NONE /\ echo = NONE /\ lines = NONE
    /\ src = NONE /\ value = NONE /\ unquoted = NONE /\ requoted = NONE

\* One iteration of the loop, or its end when the iterator is exhausted.
ScanStep ==
    /\ pc = "scanning"
    /\ scan' = (IF scan.i >= WireLen(wire) THEN ScanEnd(scan)
                ELSE ScanByte(scan, config, ByteAt(wire, scan.i)))
    /\ pc' = (IF scan'.ret = "Continue" THEN "scanning" ELSE "scanned")
    /\ UNCHANGED <<wire, config, msgVars, fieldsVars, valueVars>>

NextScan == ScanStep

SpecScan == InitScan /\ [][NextScan]_vars

(***************************************************************************)
(* Claims C9 and C12, under SpecScan.                                      *)
(***************************************************************************)
\* C9: parsing a field value from the wire accepts a value of exactly 100,000
\* bytes followed by its terminator, and fails with ValueTooLong for a value
\* of 100,001 bytes.
C9_CeilingIsInclusive ==
    (pc = "scanned" /\ wire.head = <<>> /\ wire.tail = CRLF) =>
        /\ wire.count = MAX_LEN => (scan.ret = "Ok" /\ scan.i = MAX_LEN)
        /\ wire.count = MAX_LEN + 1 => scan.ret = "ValueTooLong"

\* No byte of the cursor w is one the validator rejects in some scope or takes
\* for a terminator: each is a parenthesis or double quote that opens a scope,
\* or is in the table of cfg and is comment text and quoted text.
AcceptedBytes(w, cfg) ==
    \A b \in {w.head[i] : i \in 1..Len(w.head)} \cup {w.fill} \cup {w.tail[i] : i \in 1..Len(w.tail)} :
        \/ b \in {LPAREN, DQUOTE}
        \/ MapAt(cfg.map, b) # 0 /\ CTEXT_MAP(b) # 0 /\ QUOTED_TEXT_MAP(b) # 0

\* C12 as claimed: if the input ends before a value terminator is seen (no
\* root-level comma or CR), also inside an unclosed comment or quoted string,
\* parsing the value fails with IncorrectlyTerminated.
C12_EndOfInputIsIncorrectlyTerminated ==
    (pc = "scanned" /\ AcceptedBytes(wire, config)) => scan.ret = "IncorrectlyTerminated"

\* C12 amended: if an input of at most 100,000 bytes ends before a value
\* terminator is seen, also inside an unclosed comment or quoted string,
\* parsing the value fails with IncorrectlyTerminated.
C12_ShortInputIsIncorrectlyTerminated ==
    (pc = "scanned" /\ AcceptedBytes(wire, config) /\ WireLen(wire) <= MAX_LEN)
        => (scan.ret = "IncorrectlyTerminated" /\ scan.i = WireLen(wire))

C12_Witness ==
    /\ pc = "scanned"
    /\ wire.head = <<LPAREN, 97, 98, 99>>
    /\ wire.tail = <<>>
    /\ scan.validator.comment_stack = 1
    /\ scan.ret = "IncorrectlyTerminated"

(***************************************************************************)
(* Claims C11, C17, C18 and C20, under SpecWire.                           *)
(***************************************************************************)
\* A line Fields::from_bytes reads to its end: in canonical form, with a name
\* that starts with an ASCII alphanumeric, within the limits.
ReadableLine(line) == InCanonicalForm(line) /\ ParsableLines(<<line>>)

\* A line with a name to read and no colon after the bytes read as the name:
\* the name is longer than the cap, or a byte that is neither a token
\* character nor a colon follows it.
LacksColon(line) ==
    /\ TokenString(line.name)
    /\ IsAsciiAlphanumeric(line.name[1])
    /\ \/ Len(line.name) > NAME_CAP
       \/ line.colon # <<>> /\ line.colon[1] # COLON /\ TCHAR_MAP(line.colon[1]) = 0

\* C11: after reading a field name (the maximal run of token characters,
\* capped at 1024 bytes), Fields::from_bytes requires the next byte to be a
\* colon and otherwise fails with Malformed: a line with no colon and a line
\* whose name has more than 1024 token bytes are rejected with Malformed, and
\* a name of exactly 1024 bytes followed by a colon is accepted.
C11_ColonAfterName ==
    pc # "wire" =>
        /\ (\E k \in 1..Len(lines) :
                LacksColon(lines[k]) /\ \A j \in 1..(k - 1) : ReadableLine(lines[j]))
            => (~parsed.ok /\ parsed.err = "Malformed")
        /\ (\A k \in 1..Len(lines) : ReadableLine(lines[k]))
            => (parsed.ok /\ \A k \in 1..Len(lines) : IndexOf(parsed.fields, lines[k].name) # 0)

C11_Witness ==
    /\ pc = "wire_parsed"
    /\ Len(lines) = 2
    /\ Len(lines[1].name) = NAME_CAP /\ ReadableLine(lines[1])
    /\ Len(lines[2].name) = NAME_CAP + 1
    /\ ~parsed.ok /\ parsed.err = "Malformed"

(***************************************************************************)
(* SpecCodec: Code::from_bytes, Code::from_raw, Version::from_bytes,       *)
(* Version::write_to_buffer and StartLine::from_bytes.  stream is the      *)
(* cursor a parser is given, src the u16 given to from_raw or the Version  *)
(* that is written, buffer what write_to_buffer wrote, message what the    *)
(* call returned.                                                          *)
(***************************************************************************)
Digits3(n) == <<48 + (n \div 100), 48 + ((n \div 10) % 10), 48 + (n % 10)>>

NONEXISTENT == <<32, 78, 111, 110, 101, 120, 105, 115, 116, 101, 110, 116>>

CodeStreams ==
    UNION { { CodeAsBytes(c), CodeAsBytes(c) \o CRLF,
              Take(CodeAsBytes(c), 3), Take(CodeAsBytes(c), 4),
              Take(CodeAsBytes(c), Len(CodeAsBytes(c)) - 1),
              <<48>> \o CodeAsBytes(c) } : c \in CodeValues }
    \cup { Digits3(n) \o NONEXISTENT : n \in 0..999 }
    \cup { <<>>, <<50, 48>>, <<48, 48, 48>>, <<48, 48, 48, 48>>, <<97, 98, 99>>, <<97, 98, 99, 100, 101>>, <<43, 50, 48, 32, 79, 75>>,
           <<200, 200, 200, 200, 200>> }

\* The bytes that follow a version on the wire: none, a space, CRLF.
Followers == {<<>>, <<SP>>, CRLF}

VersionStreams ==
    { HTTP_SLASH \o <<a>> \o t : a \in Byte, t \in Followers }
    \cup { HTTP_SLASH \o <<a, DOT, b>> : a \in Byte, b \in {48, 49} }
    \cup { HTTP_SLASH \o <<a, DOT, b>> : a \in {48, 49}, b \in Byte }
    \cup { <<>>, HTTP_SLASH, <<49, 46, 49>>, <<104, 116, 116, 112, 47, 49, 46, 49>>, <<72, 84, 84, 80, 47>> \o <<DOT, 49, 49>> }

Versions == (0..9) \X (0..9)

\* Request start lines and what is like them: a method or what stands for it,
\* a space or none, a path, a space or none, a version, the end of the line.
RequestLines ==
    { m \o s1 \o p \o s2 \o v \o e :
        m \in { MethodAsBytes(MethodOrder[k]) : k \in 1..Len(MethodOrder) }
                 \cup { <<>>, <<103, 101, 116>>, <<66, 82, 69, 87>>, <<71, 69, 84, 88>> },      \* get, BREW, GETX
        s1 \in { <<SP>>, <<>> },
        p \in { <<47>>, <<47, 97>>, <<>>, <<47, 1>> },
        s2 \in { <<SP>>, <<>> },
        v \in { <<72, 84, 84, 80, 47, 49, 46, 49>>, <<72, 84, 84, 80, 47, 49>>, <<72, 84, 84, 80, 47, 50>>, <<72, 84, 84, 80, 47, 49, 46, 120>>, <<72, 84, 84, 80, 47, 120>>, <<104, 116, 116, 112, 47, 49, 46, 49>>,
                HTTP_SLASH \o <<0>>, HTTP_SLASH \o <<49, DOT, 33>>, HTTP_SLASH, <<>> },
        e \in { CRLF, <<>>, <<LF>>, CRLF \o HOST_LINE } }

InitCodec ==
    /\ \/ pc = "code" /\ stream \in CodeStreams /\ src = NONE
       \/ pc = "raw" /\ stream = NONE /\ src \in 0..65535
       \/ pc = "version" /\ stream \in VersionStreams /\ src = NONE
       \/ pc = "write" /\ stream \in Followers /\ src \in Versions
       \/ pc = "line" /\ stream \in RequestLines /\ src = NONE
    /\ message = NONE /\ buffer = NONE
    /\ fields = NONE /\ parsed = NONE /\ echo = NONE /\ lines = NONE
    /\ config = NONE /\ value = NONE /\ unquoted = NONE /\ requoted = NONE
    /\ scan = NONE /\ wire = NONE

\* Code::from_bytes(&mut stream).
ParseCode ==
    /\ pc = "code"
    /\ message' = CodeFromBytes(stream)
    /\ pc' = "code_parsed"
    /\ UNCHANGED <<stream, src, buffer, fields, parsed, echo, lines, config, value,
                   unquoted, requoted, scanVars>>

\* Code::from_raw(src).
RawCode ==
    /\ pc = "raw"
    /\ message' = CodeFromRaw(src)
    /\ pc' = "raw_done"
    /\ UNCHANGED <<stream, src, buffer, fields, parsed, echo, lines, config, value,
                   unquoted, requoted, scanVars>>

\* Version::from_bytes(&mut stream).
ParseVersion ==
    /\ pc \in {"version", "written"}
    /\ message' = VersionFromBytes(IF pc = "written" THEN buffer \o stream ELSE stream)
    /\ pc' = (IF pc = "written" THEN "reparsed" ELSE "version_parsed")
    /\ UNCHANGED <<stream, src, buffer, fields, parsed, echo, lines, config, value,
                   unquoted, requoted, scanVars>>

\* src.to_buffer(); the bytes of stream follow what it wrote.
WriteVersion ==
    /\ pc = "write"
    /\ buffer' = VersionWriteToBuffer(src, <<>>)
    /\ pc' = "written"
    /\ UNCHANGED <<stream, src, message, fields, parsed, echo, lines, config, value,
                   unquoted, requoted, scanVars>>

\* StartLine::from_bytes(&mut stream).
ParseStartLine ==
    /\ pc = "line"
    /\ message' = StartLineFromBytes(stream)
    /\ pc' = "line_parsed"
    /\ UNCHANGED <<stream, src, buffer, fields, parsed, echo, lines, config, value,
                   unquoted, requoted, scanVars>>

NextCodec == ParseCode \/ RawCode \/ ParseVersion \/ WriteVersion \/ ParseStartLine

SpecCodec == InitCodec /\ [][NextCodec]_vars

(***************************************************************************)
(* Claims C13 to C16, under SpecCodec.                                     *)
(***************************************************************************)
\* The first three bytes are the decimal form of the member c of CodeValues.
LeadsWith(bytes, c) == Len(bytes) >= 3 /\ Take(bytes, 3) = Take(CodeAsBytes(c), 3)

\* C13: Code::from_bytes returns InvalidCode whenever fewer than 3 bytes remain
\* or the first three bytes are not the decimal form of a member code (for every
\* length >= 3), and MalformedCode exactly when the three digits are a member
\* code whose canonical reason phrase does not follow; on either error the
\* cursor is left unchanged.
C13_CodeErrors ==
    pc = "code_parsed" =>
        /\ (\A c \in CodeValues : ~LeadsWith(stream, c))
              => (~message.ok /\ message.err = "InvalidCode")
        /\ (~message.ok /\ message.err = "MalformedCode")
              <=> (\E c \in CodeValues :
                      LeadsWith(stream, c) /\ ~StartsWith(stream, CodeAsBytes(c)))
        /\ ~message.ok => message.rest = stream

\* C14: for every member c of the code set, Code::from_bytes on c.as_bytes()
\* (alone or with more bytes after it) returns c and consumes exactly those
\* bytes, and Code::from_raw(n) is Some exactly for the members n, the code
\* returned having the value n.
C14_CodesRoundTrip ==
    /\ pc = "code_parsed" =>
          \A c \in CodeValues :
              StartsWith(stream, CodeAsBytes(c)) =>
                  /\ message.ok /\ message.code = c
                  /\ CodeAsBytes(c) \o message.rest = stream
    /\ pc = "raw_done" =>
          /\ message.some <=> src \in CodeValues
          /\ message.some => message.code = src

C14_Witness ==
    /\ pc = "code_parsed"
    /\ stream = CodeAsBytes(511) \o CRLF
    /\ message.ok /\ message.code = 511 /\ message.rest = CRLF

\* The cursor has the form HTTP/X.Y that Version::from_bytes reads two digits from.
TakesMinor(bytes) == Len(bytes) >= 8 /\ bytes[7] = DOT

\* C15: Version::from_bytes succeeds only when the major position, and the
\* minor position when the X.Y form is taken, holds an ASCII digit '0'..'9'; a
\* non-digit byte in a digit position yields Malformed, for every byte 0..255.
C15_DigitsOnly ==
    (pc = "version_parsed" /\ StartsWith(stream, HTTP_SLASH) /\ Len(stream) >= 6) =>
        (message.ok => /\ IsDigit(stream[6])
                       /\ TakesMinor(stream) => IsDigit(stream[8]))

\* C16: for every Version(major, minor) with major and minor in 0..9,
\* serialization writes HTTP/<major> when minor is 0 and HTTP/<major>.<minor>
\* otherwise, and Version::from_bytes on the bytes written, alone or followed
\* by a space or CRLF, returns the same Version.
C16_VersionRoundTrips ==
    /\ pc \in {"written", "reparsed"} =>
          buffer = HTTP_SLASH \o <<48 + src[1]>>
                       \o (IF src[2] = 0 THEN <<>> ELSE <<DOT, 48 + src[2]>>)
    /\ pc = "reparsed" =>
          (message.ok /\ message.version = src /\ message.rest = stream)

C16_Witness ==
    /\ pc = "reparsed"
    /\ src = <<2, 0>> /\ buffer = HTTP_SLASH \o <<50>> /\ stream = CRLF
    /\ message.ok /\ message.version = <<2, 0>>

\* value without its leading spaces.
Stripped(bytes) == Drop(bytes, PrefixLen(bytes, {SP}))

\* A line of a field under the generic configuration that holds a list: the
\* name, a colon and at most one space, then the values, each of which is,
\* after its leading spaces, a whole value under the generic configuration (so
\* it has no root-level comma), with one comma and at most one space between
\* two values: Len(line.values) - 1 root-level commas.
ListLine(line) ==
    /\ TokenString(line.name)
    /\ IsAsciiAlphanumeric(line.name[1])
    /\ Len(line.name) <= NAME_CAP
    /\ line.name \notin DATE_FIELDS
    /\ line.colon \in {<<COLON>>, <<COLON, SP>>}
    /\ line.comma \in {<<COMMA>>, <<COMMA, SP>>}
    /\ \A i \in 1..Len(line.values) :
          CompleteValue(Stripped(line.values[i]), config_for_name(line.name))

\* The bytes of the values that the entry named name holds, in order.
EntryValues(fs, name) ==
    LET refs == iter_refs(FieldsGet(fs, name).values)
    IN  [i \in 1..Len(refs) |-> refs[i].value]

StrippedValues(line) == [i \in 1..Len(line.values) |-> Stripped(line.values[i])]

\* The lines ls as Fields writes them: the same names and values, a colon and
\* a space after a name, a comma and a space between two values.
WrittenLines(ls) == [k \in 1..Len(ls) |-> CanonicalLine(ls[k].name, StrippedValues(ls[k]))]

\* C17: a field line under the generic configuration whose value part holds k
\* root-level commas parses into a Values with exactly k + 1 entries in wire
\* order, each with its leading spaces removed, and serializing that Values
\* writes the entries in the same order joined by a comma and a space.  (The
\* lines of the block have names of their own and each is such a line or a
\* line in canonical form.)
C17_CommasSplitValues ==
    (/\ pc # "wire" /\ lines # <<>>
     /\ \A k \in 1..Len(lines) : ListLine(lines[k]) \/ ReadableLine(lines[k])
     /\ \A j, k \in 1..Len(lines) : j # k => lines[j].name # lines[k].name) =>
        /\ parsed.ok
        /\ \A k \in 1..Len(lines) :
              ListLine(lines[k]) =>
                  /\ FieldsGet(parsed.fields, lines[k].name).some
                  /\ EntryValues(parsed.fields, lines[k].name) = StrippedValues(lines[k])
        /\ pc = "echoed" => echo = WireOf(WrittenLines(lines))

C17_Witness ==
    /\ pc = "echoed"
    /\ Len(lines) = 2 /\ ListLine(lines[1]) /\ ListLine(lines[2])
    /\ lines[1].name # lines[2].name
    /\ Len(lines[1].values) = 3
    /\ lines[1].values[2] = <<SP, 99>>
    /\ EntryValues(parsed.fields, lines[1].name)[2] = <<99>>
    /\ echo # buffer

(***************************************************************************)
(* SpecEntries: the header blocks of SpecWire parsed, and the calls of     *)
(* SpecFields on a Fields built call by call.                              *)
(***************************************************************************)
InitEntries == InitWire \/ InitFields

NextEntries == NextWire \/ NextFields

SpecEntries == InitEntries /\ [][NextEntries]_vars

(***************************************************************************)
(* Claim C18, under SpecEntries.                                           *)
(***************************************************************************)
\* The names of the lines ls, each once, in the order of their first lines.
RECURSIVE FirstNames(_)
FirstNames(ls) ==
    IF ls = <<>> THEN <<>>
    ELSE LET before == FirstNames(Take(ls, Len(ls) - 1))
             name == ls[Len(ls)].name
         IN  IF \E i \in 1..Len(before) : before[i] = name THEN before
             ELSE Append(before, name)

\* The values of the lines of ls named name, in the order of the lines.
RECURSIVE GivenValues(_, _)
GivenValues(ls, name) ==
    IF ls = <<>> THEN <<>>
    ELSE (IF ls[1].name = name THEN StrippedValues(ls[1]) ELSE <<>>)
             \o GivenValues(Tail(ls), name)

EntryNames(fs) == [k \in 1..Len(fs) |-> fs[k].name]

\* No two entries of fs have the same name.
OneEntryPerName(fs) == \A j, k \in 1..Len(fs) : j # k => fs[j].name # fs[k].name

\* fields' is fields after the value bytes was given for name: a new last
\* entry with that value when no entry has the name, the entry of the name with
\* the value after those it had otherwise, and every other entry as it was.
ValueGiven(name, bytes) ==
    LET k == IndexOf(fields, name)
    IN  IF k = 0
        THEN /\ Len(fields') = Len(fields) + 1
             /\ \A j \in 1..Len(fields) : fields'[j] = fields[j]
             /\ fields'[Len(fields')].name = name
             /\ EntryValues(fields', name) = <<bytes>>
        ELSE /\ Len(fields') = Len(fields)
             /\ \A j \in 1..Len(fields) : j # k => fields'[j] = fields[j]
             /\ fields'[k].name = name
             /\ EntryValues(fields', name) = Append(EntryValues(fields, name), bytes)

EntryLines(fs) ==
    [k \in 1..Len(fs) |-> CanonicalLine(fs[k].name, EntryValues(fs, fs[k].name))]

\* C19: Fields serialization writes, for each entry in insertion order, the
\* name, a colon and a space, the serialized values and CRLF, and then the
\* terminating blank-line CRLF only if the collection is non-empty; an empty
\* Fields serializes to zero bytes.
C19_SerializedEntries ==
    pc \in {"written", "parsed"} =>
        buffer = (IF fields = <<>> THEN <<>> ELSE LinesBytes(EntryLines(fields)) \o CRLF)

C19_Witness ==
    /\ pc = "written"
    /\ Len(fields) = 2
    /\ buffer = LineBytes(EntryLines(fields)[1]) \o LineBytes(EntryLines(fields)[2]) \o CRLF

(***************************************************************************)
(* Claim C20, under SpecWire.                                              *)
(***************************************************************************)
DateNames ==
    { <<68, 97, 116, 101>>,           \* Date
      <<76, 97, 115, 116, 45, 77, 111, 100, 105, 102, 105, 101, 100>>,           \* Last-Modified
      <<69, 120, 112, 105, 114, 101, 115>> }          \* Expires

HTTP_DATE == <<70, 114, 105, 44, 32, 48, 57, 32, 74, 117, 110, 32, 50, 48, 50, 51, 32, 49, 56, 58, 51, 54, 58, 53, 56, 32, 71, 77, 84>>    \* Fri, 09 Jun 2023 18:36:58 GMT

\* The bytes of the line between the colon and CRLF.
ValuePart(line) == JoinValues(line.values, line.comma)

\* C20: a field named exactly Date, Last-Modified or Expires is validated
\* with the date-character table, so an HTTP date such as
\* Fri, 09 Jun 2023 18:36:58 GMT parses as exactly one value (its comma does
\* not split it); every other field name, including a different-case spelling
\* such as date, uses the generic token table and is split at root-level
\* commas.  (For the values: the lines of the block have names of their own and
\* each is a list line or a line in canonical form.)
C20_DateFieldsAreOneValue ==
    (pc # "wire" /\ parsed.ok) =>
        /\ \A k \in 1..Len(parsed.fields) :
              parsed.fields[k].values.config.map
                  = (IF parsed.fields[k].name \in DateNames THEN "DATE_MAP" ELSE "TOKEN_MAP")
        /\ (/\ \A k \in 1..Len(lines) : ListLine(lines[k]) \/ ReadableLine(lines[k])
            /\ \A j, k \in 1..Len(lines) : j # k => lines[j].name # lines[k].name) =>
              \A k \in 1..Len(lines) :
                  IF lines[k].name \in DateNames
                  THEN EntryValues(parsed.fields, lines[k].name) = <<ValuePart(lines[k])>>
                  ELSE Len(EntryValues(parsed.fields, lines[k].name)) = Len(lines[k].values)

C20_Witness ==
    /\ pc = "wire_parsed" /\ parsed.ok
    /\ Len(lines) = 2
    /\ lines[1].name = <<68, 97, 116, 101>> /\ ValuePart(lines[1]) = HTTP_DATE
    /\ lines[2].name = <<100, 97, 116, 101>> /\ ValuePart(lines[2]) = HTTP_DATE
    /\ EntryValues(parsed.fields, lines[1].name) = <<HTTP_DATE>>
    /\ Len(EntryValues(parsed.fields, lines[2].name)) = 2

(***************************************************************************)
(* Claim C21, under SpecFields.                                            *)
(***************************************************************************)
\* Every byte of bytes is below 0x80.
AllAscii(bytes) == \A i \in 1..Len(bytes) : bytes[i] < 128

\* The flag of every Value of every entry of fs says whether its bytes are ASCII.
FlagsAgree(fs) ==
    \A k \in 1..Len(fs) :
        \A v \in {iter_refs(fs[k].values)[i] : i \in 1..Len(iter_refs(fs[k].values))} :
            v.is_valid_ascii <=> AllAscii(v.value)

\* C21: for every Value, whichever constructor produced it (wire parse,
\* Values::new/push, Fields::add_header_value), the ASCII flag equals the
\* conjunction of byte < 0x80 over the stored bytes: Value::as_str returns Some
\* exactly when every stored byte is below 0x80.
C21_AsciiFlagIsAllBelow128 ==
    /\ pc \in {"building", "written", "parsed"} => FlagsAgree(fields)
    /\ (pc = "parsed" /\ parsed.ok) => FlagsAgree(parsed.fields)

(***************************************************************************)
(* Claims C22 and C30, under SpecValue.                                    *)
(***************************************************************************)
\* C22: every Value produced under a configuration cfg, by parsing wire bytes
\* or by Value::from_unquoted, for any cfg including ones with quotes or
\* comments disabled, satisfies the grammar of cfg: Value::unquote(cfg) never
\* returns InvalidData for it.
C22_UnquoteNeverInvalidData ==
    pc \in {"built_unquoted", "parsed_unquoted"} => unquoted.ok

\* The Validator v of cfg classifies every byte of s from the i-th on as
\* visible (advance returns Ok(true)) and ends in root scope.
RECURSIVE AllVisibleFrom(_, _, _, _)
AllVisibleFrom(s, cfg, i, v) ==
    IF i > Len(s) THEN in_root_scope(v)
    ELSE \E a \in {ValidatorAdvance(v, cfg, s[i])} :
            a.ret = "OkTrue" /\ AllVisibleFrom(s, cfg, i + 1, a.v)

\* The bytes of s the quoted-text table rejects: their indices.
Rejected(s) == { i \in 1..Len(s) : QUOTED_TEXT_MAP(s[i]) = 0 }

\* C30: Value::from_unquoted(s, cfg) stores s verbatim exactly when the
\* Validator classifies every byte of s as visible and ends in root scope;
\* otherwise it stores a double quote, s with one backslash before each byte
\* the quoted-text table rejects, and a double quote: len(s) + 2 + the number
\* of rejected bytes.
C30_FromUnquotedStores ==
    pc = "built" =>
        IF AllVisibleFrom(src, config, 1, ValidatorNew)
        THEN value.value = src
        ELSE /\ value.value = <<DQUOTE>> \o Escaped(src) \o <<DQUOTE>>
             /\ Len(value.value) = Len(src) + 2 + Cardinality(Rejected(src))
             /\ value.value # src

C30_Witness ==
    /\ pc = "built"
    /\ Len(src) = MaxSrc
    /\ Cardinality(Rejected(src)) = 2
    /\ Len(value.value) = MaxSrc + 4

(***************************************************************************)
(* Claim C23, under SpecCodec.                                             *)
(***************************************************************************)
\* The bytes begin with a version as the grammar has it: HTTP/, a digit and,
\* when a dot comes next, a digit after the dot.
VersionForm(bytes) ==
    /\ StartsWith(bytes, HTTP_SLASH) /\ Len(bytes) >= 6
    /\ IsDigit(bytes[6])
    /\ TakesMinor(bytes) => IsDigit(bytes[8])

VersionLen(bytes) == IF TakesMinor(bytes) THEN 8 ELSE 6

\* What the start line's grammar says of the bytes left after the method, in
\* wire order: "Accepted" or the error of the first violation.
AfterMethod(rest) ==
    LET path == Drop(rest, 1)
        n == PrefixLen(path, URIChars)
        version == Drop(path, n + 1)
    IN  IF rest = <<>> \/ rest[1] # SP THEN "MalformedStartLine"
        ELSE IF n = 0 THEN "InvalidResource"
        ELSE IF Len(path) = n \/ path[n + 1] # SP THEN "MalformedStartLine"
        ELSE IF ~VersionForm(version) THEN "VersionMalformed"
        ELSE IF ~StartsWith(Drop(version, VersionLen(version)), CRLF) THEN "MalformedStartLine"
        ELSE "Accepted"

Verdict(bytes) ==
    IF \E k \in 1..Len(MethodOrder) : StartsWith(bytes, MethodAsBytes(MethodOrder[k]))
    THEN LET k == CHOOSE k \in 1..Len(MethodOrder) :
                      StartsWith(bytes, MethodAsBytes(MethodOrder[k]))
         IN  AfterMethod(Drop(bytes, Len(MethodAsBytes(MethodOrder[k]))))
    ELSE "MethodUnsupported"

\* C23: request start-line parsing reports the first violation in wire order:
\* no leading method literal gives MethodUnsupported; a missing space after the
\* method or after the path, or a missing CRLF after the version, gives
\* MalformedStartLine; no URI-table byte where the path is expected gives
\* InvalidResource; a bad version gives VersionMalformed; and a start line is
\* accepted only in the form METHOD SP PATH SP VERSION CRLF with a non-empty
\* path made only of URI-table bytes.
C23_FirstViolationReported ==
    pc = "line_parsed" =>
        IF message.ok THEN Verdict(stream) = "Accepted" ELSE message.err = Verdict(stream)

(***************************************************************************)
(* SpecCursor: the operations of Advance on a Bytes, in any order.  buffer *)
(* is the buffer the cursor was made from, stream the cursor, echo the     *)
(* bytes the operations removed so far, message the last call: its         *)
(* operation, argument, the cursor it was given (before) and what it       *)
(* returned (ret).                                                         *)
(***************************************************************************)
MaxCursor == 4

CursorBytes == {97, 98, SP}

\* The byte sequences given to advance_bytes.
Needles == { <<>>, <<97>>, <<97, 98>>, <<97, 97>>, <<SP>>, <<98, SP, 97>> }

\* The predicates given to advance_while and split_while, each as the set of
\* the bytes it holds of.
Predicates == { {}, {97}, {SP}, {97, 98}, CursorBytes }

InitCursor ==
    /\ buffer \in UNION { [1..n -> CursorBytes] : n \in 0..MaxCursor }
    /\ stream = buffer
    /\ echo = <<>>
    /\ message = NONE
    /\ pc = "cursor"
    /\ fields = NONE /\ parsed = NONE /\ lines = NONE
    /\ src = NONE /\ config = NONE /\ value = NONE /\ unquoted = NONE /\ requoted = NONE
    /\ scan = NONE /\ wire = NONE

\* What a call leaves: r is what the operation op did on the cursor with arg.
called(op, arg, r) ==
    /\ stream' = r.rest
    /\ echo' = echo \o Take(stream, Len(stream) - Len(r.rest))
    /\ message' = [op |-> op, arg |-> arg, before |-> stream, ret |-> r.ret]
    /\ UNCHANGED <<buffer, pc, fields, parsed, lines, valueVars, config, scanVars>>

AdvanceByte ==
    /\ pc = "cursor"
    /\ \E byte \in CursorBytes : called("advance_byte", byte, advance_byte(stream, byte))

AdvanceBytes ==
    /\ pc = "cursor"
    /\ \E bytes \in Needles : called("advance_bytes", bytes, advance_bytes(stream, bytes))

AdvanceWhile ==
    /\ pc = "cursor"
    /\ \E ok \in Predicates : called("advance_while", ok, advance_while(stream, ok))

SplitOneByte ==
    /\ pc = "cursor"
    /\ called("split_one_byte", NONE, split_one_byte(stream))

SplitWhile ==
    /\ pc = "cursor"
    /\ \E ok \in Predicates : called("split_while", ok, split_while(stream, ok))

NextCursor == AdvanceByte \/ AdvanceBytes \/ AdvanceWhile \/ SplitOneByte \/ SplitWhile

SpecCursor == InitCursor /\ [][NextCursor]_vars

(***************************************************************************)
(* Claim C24, under SpecCursor.                                            *)
(***************************************************************************)
\* The call m reported no match: false, 0, None or an empty view.
NoMatch(m) ==
    CASE m.op \in {"advance_byte", "advance_bytes"} -> ~m.ret
      [] m.op = "advance_while" -> m.ret = 0
      [] m.op = "split_one_byte" -> ~m.ret.some
      [] m.op = "split_while" -> m.ret = <<>>

\* The bytes the call m removed from the cursor it was given.
Removed(m) == Take(m.before, Len(m.before) - Len(stream))

\* removed is the longest prefix of the cursor m was given whose bytes are in ok.
MaximalPrefix(removed, ok) ==
    /\ \A i \in 1..Len(removed) : removed[i] \in ok
    /\ stream = <<>> \/ stream[1] \notin ok

\* The call m removed exactly the prefix it matched.
MatchedPrefixRemoved(m) ==
    /\ Removed(m) \o stream = m.before
    /\ CASE m.op = "advance_byte" -> Removed(m) = <<m.arg>>
         [] m.op = "advance_bytes" -> Removed(m) = m.arg
         [] m.op = "advance_while" ->
                m.ret = Len(Removed(m)) /\ MaximalPrefix(Removed(m), m.arg)
         [] m.op = "split_one_byte" -> Removed(m) = <<m.ret.byte>>
         [] m.op = "split_while" ->
                m.ret = Removed(m) /\ MaximalPrefix(Removed(m), m.arg)

\* The bytes removed so far and the cursor make the buffer, and the last call
\* left the cursor as it was and reported no match, or removed the prefix it
\* matched.
CursorKept ==
    /\ echo \o stream = buffer
    /\ message # NONE =>
          IF NoMatch(message)
          THEN stream = message.before
                   /\ (message.op \in {"advance_while", "split_while"}
                          => MaximalPrefix(<<>>, message.arg))
          ELSE MatchedPrefixRemoved(message)

MaxConnections == 2

REQ_GROWTH_RATE == 8192
REQ_MAX_CAPACITY == REQ_GROWTH_RATE * 2

\* What a connection delivers: the streams of SpecMsg that begin like a
\* request, and one that fills the request buffer.
Connections ==
    { s \in Streams : s[1] \in {66, 71} } \cup { [i \in 1..REQ_MAX_CAPACITY |-> 97] }

InitServer ==
    /\ pc = "listening"
    /\ stream = NONE /\ message = NONE
    /\ echo = <<>>
    /\ fields = NONE /\ buffer = NONE /\ parsed = NONE /\ lines = NONE
    /\ src = NONE /\ config = NONE /\ value = NONE /\ unquoted = NONE /\ requoted = NONE
    /\ scan = NONE /\ wire = NONE

\* listener.incoming() yields a connection.
Accept ==
    /\ pc = "listening"
    /\ Len(echo) < MaxConnections
    /\ stream' \in Connections
    /\ message' = NONE
    /\ pc' = "accepted"
    /\ UNCHANGED <<echo, fields, buffer, parsed, lines, valueVars, config, scanVars>>

\* dispatch from the match on Request::from_bytes on, req being what it did.
dispatch_parsed(req) ==
    /\ message' = req
    /\ IF req.kind = "Panic"
       THEN pc' = "crashed" /\ echo' = echo
       ELSE /\ pc' = "listening"
            /\ echo' = Append(echo, IF req.kind = "Ok" THEN "Routed" ELSE "InternalServerError")

\* handler.dispatch(&mut stream); buffered is whether buffer_request returned Ok.
Dispatch ==
    /\ pc = "accepted"
    /\ \E buffered \in BOOLEAN :
          IF ~buffered
          THEN message' = NONE /\ pc' = "listening" /\ echo' = Append(echo, "Nothing")
          ELSE IF Len(stream) >= REQ_MAX_CAPACITY
          THEN message' = NONE /\ pc' = "listening" /\ echo' = Append(echo, "PayloadTooLarge")
          ELSE dispatch_parsed(RequestFromBytes(stream))
    /\ UNCHANGED <<stream, fields, buffer, parsed, lines, valueVars, config, scanVars>>

NextServer == Accept \/ Dispatch

SpecServer == InitServer /\ [][NextServer]_vars

(***************************************************************************)
(* Claim C25, under SpecServer.                                            *)
(***************************************************************************)
\* C25: for every sequence of incoming connections, when the bytes of a
\* connection fail to parse as a request (for any reason, including a message
\* truncated before its declared Content-Length), the connection handler
\* writes a best-effort error response, returns, and goes on to serve every
\* subsequent connection.
C25_ParseFailureIsAnswered ==
    (pc \in {"listening", "crashed"} /\ message # NONE /\ message.kind # "Ok") =>
        /\ pc = "listening"
        /\ echo[Len(echo)] = "InternalServerError"

(***************************************************************************)
(* SpecLoop: Fields::from_bytes, one iteration of its loops at a time, on  *)
(* the header blocks of SpecWire.  stream is the cursor, fields the        *)
(* entries inserted so far, value the line being read (its name, the       *)
(* index k of the entry that has the name or 0, the Values read so far or  *)
(* NONE), message what from_bytes returned.  scan counts: line_start is    *)
(* the length of the cursor when the iteration of the field loop began,    *)
(* steps the calls of Validator::advance so far.  pc is "field_loop" at    *)
(* the head of the field loop, "value_loop" at the head of an iteration of *)
(* the value-list loop, "line_end" after it and "done" after the return.   *)
(* The code runs on once started: each step that can be taken is taken.    *)
(***************************************************************************)
InitLoop ==
    /\ lines \in WireInputs
    /\ buffer = WireOf(lines)
    /\ stream = buffer
    /\ fields = FieldsNew
    /\ value = NONE /\ message = NONE
    /\ scan = [line_start |-> Len(buffer), steps |-> 0]
    /\ pc = "field_loop"
    /\ parsed = NONE /\ echo = NONE
    /\ src = NONE /\ config = NONE /\ unquoted = NONE /\ requoted = NONE
    /\ wire = NONE

\* from_bytes returns r.
returned(r) ==
    /\ message' = r
    /\ stream' = r.rest
    /\ pc' = "done"

\* The head of the field loop: its test and, in the loop, the statements up to
\* the values; out of the loop, the statements after it.
FieldLoop ==
    /\ pc = "field_loop"
    /\ IF ~StartsWith(stream, CRLF) /\ Len(stream) > 0 /\ IsAsciiAlphanumeric(stream[1])
       THEN \E name \in {field_name_from_bytes(stream)} :
            LET colon == advance_byte(name.rest, COLON)
                k == IndexOf(fields, name.ret)
            IN  IF name.ret = <<>>
                THEN returned([ok |-> FALSE, err |-> "NameMissing", rest |-> name.rest])
                        /\ UNCHANGED <<value, scan>>
                ELSE IF ~colon.ret
                THEN returned([ok |-> FALSE, err |-> "Malformed", rest |-> colon.rest])
                        /\ UNCHANGED <<value, scan>>
                ELSE /\ stream' = advance_byte(colon.rest, SP).rest
                     /\ value' = [name |-> name.ret, k |-> k,
                                  values |-> IF k # 0 THEN fields[k].values ELSE NONE]
                     /\ scan' = [scan EXCEPT !.line_start = Len(stream)]
                     /\ pc' = "value_loop"
                     /\ UNCHANGED message
       ELSE returned(fields_end(fields, advance_bytes(stream, CRLF)))
                /\ UNCHANGED <<value, scan>>
    /\ UNCHANGED <<fields, buffer, lines, parsed, echo, src, config, unquoted, requoted, wire>>

\* One iteration of the value-list loop (for the first value of a new name,
\* the statements of Values::from_bytes): the spaces, one Value, the comma.
\* s is how the loop of Value::from_bytes ended on the bytes after the spaces.
value_read(bytes, s) ==
    LET v == ScanResult(bytes, s)
        comma == advance_byte(v.rest, COMMA)
    IN  /\ scan' = [scan EXCEPT !.steps = @ + (IF s.ret \in {"IncorrectlyTerminated", "ValueTooLong"}
                                               THEN s.i ELSE s.i + 1)]
        /\ IF ~v.ok THEN returned(v) /\ UNCHANGED value
           ELSE /\ value' = [value EXCEPT !.values =
                                IF value.values = NONE
                                THEN [first |-> v.value, extra |-> <<>>,
                                      config |-> config_for_name(value.name)]
                                ELSE [@ EXCEPT !.extra = Append(@, v.value)]]
                /\ stream' = comma.rest
                /\ pc' = (IF comma.ret THEN "value_loop" ELSE "line_end")
                /\ UNCHANGED message

ValueLoop ==
    /\ pc = "value_loop"
    /\ \E bytes \in {advance_while(stream, {SP}).rest} :
          \E s \in {from_bytes_loop(bytes,
                                    IF value.values = NONE THEN config_for_name(value.name)
                                    ELSE value.values.config,
                                    ScanNew)} :
              value_read(bytes, s)
    /\ UNCHANGED <<fields, buffer, lines, parsed, echo, src, config, unquoted, requoted, wire>>

\* The end of an iteration of the field loop: the entry and the CRLF.
LineEnd ==
    /\ pc = "line_end"
    /\ LET crlf == advance_bytes(stream, CRLF)
       IN  IF ~crlf.ret
           THEN returned([ok |-> FALSE, err |-> "Malformed", rest |-> crlf.rest])
                    /\ UNCHANGED fields
           ELSE /\ fields' = (IF value.k # 0 THEN [fields EXCEPT ![value.k].values = value.values]
                              ELSE Append(fields, [name |-> value.name, values |-> value.values]))
                /\ stream' = crlf.rest
                /\ pc' = "field_loop"
                /\ UNCHANGED message
    /\ UNCHANGED <<value, scan, buffer, lines, parsed, echo, src, config, unquoted, requoted, wire>>

NextLoop == FieldLoop \/ ValueLoop \/ LineEnd

SpecLoop == InitLoop /\ [][NextLoop]_vars /\ WF_vars(NextLoop)

(***************************************************************************)
(* Claim C26, under SpecLoop.                                              *)
(***************************************************************************)
\* s is what is left of t after a prefix of t was removed.
SuffixOf(s, t) == Len(s) <= Len(t) /\ s = Drop(t, Len(t) - Len(s))

\* A step of the loops: the cursor does not move backward; an iteration of the
\* value-list loop that goes on to another has consumed a byte or more, and so
\* has an iteration of the field loop that goes on to another.
Progress ==
    /\ SuffixOf(stream', stream)
    /\ (pc = "value_loop" /\ pc' = "value_loop") => Len(stream') < Len(stream)
    /\ pc' = "value_loop" => Len(stream') < scan'.line_start \/ pc = "value_loop"
    /\ (pc = "line_end" /\ pc' = "field_loop") => Len(stream') < scan.line_start

\* C26: Fields::from_bytes terminates on every finite input: each iteration
\* of the field loop and of the value-list loop consumes at least one byte, the
\* cursor never moves backward, and each input byte is stepped through the
\* Validator at most once per value (so the Validator is stepped no more often
\* than there are bytes consumed, and once more for the byte it stopped at).
C26_LoopsTerminate ==
    /\ [][Progress]_vars
    /\ [](scan.steps <= Len(buffer) - Len(stream) + 1)
    /\ <>(pc = "done")

C26_Witness ==
    /\ pc = "done" /\ message.ok
    /\ Len(lines) = 2 /\ Len(lines[1].values) = 3 /\ lines[1].name # lines[2].name
    /\ Len(message.fields) = 2
    /\ message.rest = <<>>
    /\ scan.steps > 10


(***************************************************************************)
(* SpecValidator: a Validator of any configuration is advanced over any    *)
(* bytes, as the loops of Value::from_bytes, from_unquoted and unquote do. *)
(* scan holds the Validator, the last call (the Validator before it, its   *)
(* byte, what it returned), and the error returned by a call before the    *)
(* last one, if any.                                                       *)
(***************************************************************************)
MaxAdvances == 5

\* A byte of each kind the Validator tells apart: the NUL, a letter, an
\* opaque byte, and the bytes it names.
ValidatorBytes == {0, 97, 200, CR, DQUOTE, LPAREN, RPAREN, COMMA, BACKSLASH}

InitValidator ==
    /\ config \in ValueConfigs
    /\ scan = [validator |-> ValidatorNew, before |-> ValidatorNew, byte |-> 0,
               ret |-> "None", failed |-> "None", calls |-> 0]
    /\ pc = "validating"
    /\ stream = NONE /\ message = NONE
    /\ fields = NONE /\ buffer = NONE /\ parsed = NONE /\ echo = NONE /\ lines = NONE
    /\ src = NONE /\ value = NONE /\ unquoted = NONE /\ requoted = NONE
    /\ wire = NONE

\* A call of Validator::advance.
Advance ==
    /\ pc = "validating"
    /\ scan.calls < MaxAdvances
    /\ \E b \in ValidatorBytes :
          \E a \in {ValidatorAdvance(scan.validator, config, b)} :
              scan' = [validator |-> a.v, before |-> scan.validator, byte |-> b,
                       ret |-> a.ret,
                       failed |-> IF scan.failed # "None" THEN scan.failed
                                  ELSE IF scan.ret \in {"None", "OkTrue", "OkFalse"} THEN "None"
                                  ELSE scan.ret,
                       calls |-> scan.calls + 1]
    /\ UNCHANGED <<msgVars, fieldsVars, valueVars, config, wire, pc>>

NextValidator == Advance

SpecValidator == InitValidator /\ [][NextValidator]_vars

(***************************************************************************)
(* Claims C27, C28 and C29, under SpecValidator.                           *)
(***************************************************************************)
\* The last call was made on a Validator that had recorded no error.
Fresh == scan.calls > 0 /\ scan.before.error = "None"

\* The state the last call was made in.
WasQuoted == Fresh /\ scan.before.quoted
WasCommented == Fresh /\ ~scan.before.quoted /\ scan.before.comment_stack >= 1

\* C27: in the Commented state (depth >= 1) with quotes allowed, a double
\* quote moves the Validator into the Quoted state.
C27_QuoteInCommentEntersQuoted ==
    (WasCommented /\ config.quotes /\ scan.byte = DQUOTE) => scan.validator.quoted

\* C28: once advance has returned an error (the end-of-value signal included),
\* every later call returns that same error for any byte, and leaves the
\* quoted flag, the escape-pending flag and the comment depth unchanged.
C28_PoisonedValidator ==
    scan.failed # "None" =>
        /\ scan.ret = scan.failed
        /\ scan.validator.quoted = scan.before.quoted
        /\ scan.validator.backslash = scan.before.backslash
        /\ scan.validator.comment_stack = scan.before.comment_stack

C28_Witness ==
    /\ scan.failed = "Comment"
    /\ scan.byte = RPAREN
    /\ scan.validator.comment_stack = 2
    /\ scan.calls = 4

\* The end of a value is signalled in the Root state only: a comma or a CR in
\* a quoted-string or in a comment does not end the value, and a value that
\* ended left the Validator in root scope.
EndOnlyInRoot ==
    /\ (Fresh /\ scan.ret = "Terminated") => in_root_scope(scan.before)
    /\ scan.ret = "Terminated" => in_root_scope(scan.validator)
    /\ ((WasQuoted \/ WasCommented) /\ scan.byte \in {COMMA, CR}) => scan.ret # "Terminated"

\* C29 as stated: the end of a value is signalled in the Root state only, and
\* a CR in a quoted-string is an InvalidQuotedText error, a CR in a comment an
\* InvalidComment error.
C29_EndOfValueOnlyInRoot ==
    /\ EndOnlyInRoot
    /\ (WasQuoted /\ scan.byte = CR) => scan.ret = "Quote"
    /\ (WasCommented /\ scan.byte = CR) => scan.ret = "Comment"

\* C29, amended: the end of a value is signalled in the Root state only; a CR
\* in a comment is an InvalidComment error; a CR in a quoted-string is an
\* InvalidQuotedText error unless it follows a backslash, and then it is
\* accepted as an escaped literal.
C29_EndOfValueOnlyInRootButEscapedCR ==
    /\ EndOnlyInRoot
    /\ (WasQuoted /\ scan.byte = CR) =>
            scan.ret = (IF scan.before.backslash THEN "OkTrue" ELSE "Quote")
    /\ (WasCommented /\ scan.byte = CR) => scan.ret = "Comment"

C29_Witness ==
    /\ WasCommented
    /\ scan.before.comment_stack = 2
    /\ scan.byte = CR
    /\ scan.ret = "Comment"

(***************************************************************************)
(* Claim C34, under SpecValidator.                                         *)
(***************************************************************************)
\* The comment depth of v is not negative, and its escape-pending flag is set
\* only while its quoted flag is set.
WellFormed(v) == v.comment_stack >= 0 /\ (v.backslash => v.quoted)

\* C34: in every state reachable by feeding any byte sequence to a Validator,
\* the comment depth is never negative and the escape-pending flag is set only
\* while the quoted flag is set.
C34_ValidatorWellFormed == WellFormed(scan.validator) /\ WellFormed(scan.before)

\* A closing parenthesis met in the Root state: the depth stays 0.
C34_Witness ==
    /\ Fresh
    /\ scan.calls = 3
    /\ scan.byte = RPAREN
    /\ in_root_scope(scan.before)
    /\ scan.validator.comment_stack = 0

(***************************************************************************)
(* request.rs, response.rs: the construction of a message and its          *)
(* serialization.                                                          *)
(***************************************************************************)
HOST == <<72, 111, 115, 116>>
CONTENT_TYPE == <<67, 111, 110, 116, 101, 110, 116, 45, 84, 121, 112, 101>>
TEXT_PLAIN == <<116, 101, 120, 116, 47, 112, 108, 97, 105, 110>>
DATE == <<68, 97, 116, 101>>

\* Request::new.
RequestNew(host, method, path) ==
    [kind |-> "Request", method |-> method, path |-> path, version |-> <<1, 1>>,
     headers |-> add_header_value(FieldsNew, HOST, host),
     body |-> <<>>, trailers |-> FieldsNew]

\* Response::new; date is what httpdate::fmt_http_date returned.  On one name
\* and one value Fields::copy_from_str is Values::new under config_for_name.
ResponseNew(code, date) ==
    [kind |-> "Response", version |-> <<1, 1>>, code |-> code,
     headers |-> <<[name |-> DATE, values |-> ValuesNew(date, config_for_name(DATE))]>>,
     body |-> <<>>, trailers |-> FieldsNew]

\* Request::no_body_of_type and Response::no_body_of_type.
no_body_of_type(msg, body, content_type) ==
    [msg EXCEPT !.headers =
        add_header_value(add_header_value(@, CONTENT_LENGTH, to_string(Len(body))),
                         CONTENT_TYPE, content_type)]

\* Request::body_of_type and Response::body_of_type.
body_of_type(msg, body, content_type) ==
    [no_body_of_type(msg, body, content_type) EXCEPT !.body = body]

\* Request::write_to_buffer and Response::write_to_buffer on an empty buffer.
MessageToBuffer(msg) ==
    LET start == IF msg.kind = "Request"
                 THEN MethodAsBytes(msg.method) \o <<SP>> \o msg.path \o <<SP>>
                        \o VersionWriteToBuffer(msg.version, <<>>) \o CRLF
                 ELSE VersionWriteToBuffer(msg.version, <<>>) \o <<SP>>
                        \o CodeAsBytes(msg.code) \o CRLF
    IN  FieldsWriteToBuffer(msg.trailers,
            FieldsWriteToBuffer(msg.headers, start) \o msg.body)

(***************************************************************************)
(* SpecBuilder: a Request or a Response is constructed, headers and bodies *)
(* are given to it, it is serialized and the bytes are parsed.  lines      *)
(* holds the calls made.                                                   *)
(***************************************************************************)
MaxCalls == 2

BuilderValues == { <<98>>, <<120, 13, 10, 66, 58, 32, 121>> }
BuilderBodies == { <<>>, <<97>>, <<98, 99>> }
BuilderTypes == { <<97, 47, 98>> }

InitBuilder ==
    /\ message \in { RequestNew(<<104>>, "Get", <<47>>), ResponseNew(200, HTTP_DATE) }
    /\ lines = <<>>
    /\ buffer = NONE /\ parsed = NONE
    /\ pc = "building"
    /\ stream = NONE /\ fields = NONE /\ echo = NONE
    /\ src = NONE /\ config = NONE /\ value = NONE /\ unquoted = NONE /\ requoted = NONE
    /\ scan = NONE /\ wire = NONE

\* What a call of the builder leaves.
built(call, msg) ==
    /\ pc = "building"
    /\ Len(lines) < MaxCalls
    /\ message' = msg
    /\ lines' = Append(lines, call)
    /\ UNCHANGED <<stream, fields, buffer, parsed, echo, valueVars, config, scanVars, pc>>

BuilderAddHeaderValue ==
    \E bytes \in BuilderValues :
        built("add_header_value",
              [message EXCEPT !.headers = add_header_value(@, <<65>>, bytes)])

Body ==
    \E body \in BuilderBodies : built("body", body_of_type(message, body, TEXT_PLAIN))

BodyOfType ==
    \E body \in BuilderBodies, content_type \in BuilderTypes :
        built("body_of_type", body_of_type(message, body, content_type))

Finish ==
    /\ pc = "building"
    /\ buffer' = MessageToBuffer(message)
    /\ pc' = "written"
    /\ UNCHANGED <<stream, message, fields, parsed, echo, lines, valueVars, config, scanVars>>

ParseBack ==
    /\ pc = "written"
    /\ parsed' = (IF message.kind = "Request" THEN RequestFromBytes(buffer)
                  ELSE ResponseFromBytes(buffer))
    /\ pc' = "parsed"
    /\ UNCHANGED <<stream, message, fields, buffer, echo, lines, valueVars, config, scanVars>>

NextBuilder == BuilderAddHeaderValue \/ Body \/ BodyOfType \/ Finish \/ ParseBack

SpecBuilder == InitBuilder /\ [][NextBuilder]_vars

(***************************************************************************)
(* Claims C31 and C33, under SpecBuilder.                                  *)
(***************************************************************************)
\* The values of the entries of fs.
ValuesOf(fs) ==
    UNION { {fs[k].values.first.value} \cup { fs[k].values.extra[j].value :
                                               j \in 1..Len(fs[k].values.extra) } :
            k \in 1..Len(fs) }

\* C31: no sequence of builder operations makes a serialized message contain
\* a bare CR or LF inside a header value: the header block written has one
\* line for each entry of the headers and no other.
C31_NoInjectedLine ==
    pc \in {"written", "parsed"} =>
        /\ \A v \in ValuesOf(message.headers) : \A i \in 1..Len(v) : v[i] \notin {CR, LF}
        /\ (parsed # NONE /\ parsed.kind = "Ok") =>
                EntryNames(parsed.headers) = EntryNames(message.headers)

\* A body call was made.
BodyGiven == \E i \in 1..Len(lines) : lines[i] \in {"body", "body_of_type"}

\* C33: after any sequence of body / body_of_type calls the headers hold
\* exactly one Content-Length value, the length of the current body, and the
\* serialized message parses back with the same body.
C33_OneContentLength ==
    BodyGiven =>
        /\ LET c == FieldsGet(message.headers, CONTENT_LENGTH)
           IN  /\ c.some
               /\ c.values.extra = <<>>
               /\ c.values.first.value = to_string(Len(message.body))
        /\ pc = "parsed" => (parsed.kind = "Ok" /\ parsed.body = message.body)

(***************************************************************************)
(* SpecNew: a caller makes a Values of a Config of its own with            *)
(* Values::new, gives it more values with push, and reads each stored      *)
(* Value with as_str.                                                      *)
(***************************************************************************)
\* Value::as_str; str is the bytes the returned &str refers to.
ValueAsStr(v) ==
    IF v.is_valid_ascii THEN [some |-> TRUE, str |-> v.value] ELSE [some |-> FALSE]

\* a, the double quote, the opening parenthesis and the byte 0x80.
NewBytes == {97, DQUOTE, LPAREN, 128}

NewValues == UNION { [1..n -> NewBytes] : n \in 0..2 }

InitNew ==
    /\ config \in Configs
    /\ src \in NewValues
    /\ value = NONE /\ message = NONE
    /\ pc = "src"
    /\ stream = NONE /\ fields = NONE /\ buffer = NONE /\ parsed = NONE /\ echo = NONE
    /\ lines = NONE /\ unquoted = NONE /\ requoted = NONE
    /\ scan = NONE /\ wire = NONE

New ==
    /\ pc = "src"
    /\ value' = ValuesNew(src, config)
    /\ pc' = "values"
    /\ UNCHANGED <<src, config, unquoted, requoted, msgVars, fieldsVars, scanVars>>

Push ==
    /\ pc = "values"
    /\ Len(value.extra) + 1 < MaxValues
    /\ \E bytes \in NewValues : value' = ValuesPush(value, bytes)
    /\ UNCHANGED <<src, config, unquoted, requoted, msgVars, fieldsVars, scanVars, pc>>

AsStr ==
    /\ pc = "values"
    /\ message' = [i \in 1..Len(iter_refs(value)) |-> ValueAsStr(iter_refs(value)[i])]
    /\ pc' = "read"
    /\ UNCHANGED <<stream, src, config, value, unquoted, requoted, fieldsVars, scanVars>>

NextNew == New \/ Push \/ AsStr

SpecNew == InitNew /\ [][NextNew]_vars

(***************************************************************************)
(* Claim C32, under SpecNew.                                               *)
(***************************************************************************)
\* C32: Value::as_str returns Some only for values whose stored bytes are all
\* below 0x80, for every Value made with any Config, one whose map is a table
\* that admits bytes >= 0x80 included.
C32_StrIsAscii ==
    pc = "read" => \A i \in 1..Len(message) : message[i].some => AllAscii(message[i].str)

(***************************************************************************)
(* field.rs: the queries of Fields.                                        *)
(***************************************************************************)
\* Values::iter_slices: the bytes of each value.
iter_slices(vs) == [i \in 1..Len(iter_refs(vs)) |-> iter_refs(vs)[i].value]

\* Values::count.
values_count(vs) == Len(vs.extra) + 1

\* Fields::contains_values_exact(name, values).
contains_values_exact(fs, name, values) ==
    LET found == FieldsGet(fs, name)
    IN  /\ found.some
        /\ values_count(found.values) = Len(values)
        /\ \A j \in 1..Len(values) :
              \E i \in 1..Len(iter_slices(found.values)) :
                  iter_slices(found.values)[i] = values[j]

(***************************************************************************)
(* SpecQuery: values are stored under a name and contains_values_exact is  *)
(* asked about a name and a list of values; message is the call and what   *)
(* it returned.                                                            *)
(***************************************************************************)
MaxStored == 3

QueryNames == { <<65>>, <<66>> }            \* A, B
QueryValues == { <<97>>, <<98>> }           \* a, b

InitQuery ==
    /\ fields = FieldsNew
    /\ message = NONE
    /\ pc = "storing"
    /\ stream = NONE /\ buffer = NONE /\ parsed = NONE /\ echo = NONE /\ lines = NONE
    /\ src = NONE /\ config = NONE /\ value = NONE /\ unquoted = NONE /\ requoted = NONE
    /\ scan = NONE /\ wire = NONE

Store ==
    /\ pc = "storing"
    /\ CountValues(fields) < MaxStored
    /\ \E bytes \in QueryValues : fields' = add_header_value(fields, <<65>>, bytes)
    /\ UNCHANGED <<stream, message, buffer, parsed, echo, lines, valueVars, config, scanVars, pc>>

ContainsValuesExact ==
    /\ pc = "storing"
    /\ \E name \in QueryNames :
          \E values \in UNION { [1..n -> QueryValues] : n \in 0..MaxStored } :
              message' = [name |-> name, values |-> values,
                          ret |-> contains_values_exact(fields, name, values)]
    /\ pc' = "queried"
    /\ UNCHANGED <<stream, fieldsVars, valueVars, config, scanVars>>

NextQuery == Store \/ ContainsValuesExact

SpecQuery == InitQuery /\ [][NextQuery]_vars

(***************************************************************************)
(* Claim C38, under SpecQuery.                                             *)
(***************************************************************************)
\* How often v occurs in the sequence s.
Occurrences(v, s) == Cardinality({ i \in 1..Len(s) : s[i] = v })

\* s and t are the same collection regardless of order: the same values with
\* the same multiplicities.
SameCollection(s, t) ==
    /\ Len(s) = Len(t)
    /\ \A i \in 1..Len(s) : Occurrences(s[i], s) = Occurrences(s[i], t)

\* C38: contains_values_exact(name, expected) returns true exactly when the
\* values stored under name are the same collection as expected regardless of
\* order, and false when the name is absent.
C38_SameCollection ==
    pc = "queried" =>
        LET k == IndexOf(fields, message.name)
        IN  message.ret <=>
                (k # 0 /\ SameCollection(EntryValues(fields, message.name), message.values))

(***************************************************************************)
(* router.rs: Router.  A Router is [host_ip, host_ip_without_port,         *)
(* host_ns, host_ns_without_port]; the file system is what fs::read_dir,   *)
(* fs::read and the template answer, each call being recorded.             *)
(***************************************************************************)
DEFAULT_PORT == 80

\* usize::saturating_sub.
saturating_sub(a, b) == IF a >= b THEN a - b ELSE 0

\* Router::new.
RouterNew(address, port, host) ==
    LET host_ip == address \o <<COLON>> \o to_string(port)
        host_ns == IF host = <<>> THEN <<>> ELSE host \o <<COLON>> \o to_string(port)
    IN  [host_ip |-> host_ip,
         host_ip_without_port |->
            IF port = DEFAULT_PORT THEN saturating_sub(Len(host_ip), 3) ELSE 0,
         host_ns |-> host_ns,
         host_ns_without_port |->
            IF port = DEFAULT_PORT THEN saturating_sub(Len(host_ns), 3) ELSE 0]

\* `n != 0`, in the place of `!n != 0`.
is_not_zero(n) == n # 0

\* `!n != 0` on a usize: ! is the bitwise complement, which is 0 for
\* usize::MAX only; n, a length of a string, is below it.
complement_is_not_zero(n) == n >= 0

\* Router::validate_host.
validate_host(router, host) ==
    \/ (complement_is_not_zero(router.host_ns_without_port)
            /\ host = Take(router.host_ns, router.host_ns_without_port))
    \/ (complement_is_not_zero(router.host_ip_without_port)
            /\ host = Take(router.host_ip, router.host_ip_without_port))
    \/ (router.host_ns # <<>> /\ host = router.host_ns)
    \/ host = router.host_ip

\* Fields::get_single.
get_single(fs, name) ==
    LET found == FieldsGet(fs, name)
    IN  IF found.some /\ found.values.extra = <<>>
        THEN [some |-> TRUE, bytes |-> found.values.first.value]
        ELSE [some |-> FALSE]

\* slice_contains as it would be if it looked at the start of the haystack only.
slice_contains_at_start(haystack, needle) == StartsWith(haystack, needle)

\* slice_contains; the needle of the router is not empty.
slice_contains(haystack, needle) ==
    \/ needle = <<>>
    \/ \E i \in 0..Len(haystack) - 1 : StartsWith(Drop(haystack, i), needle)

NOT_FOUND == <<78, 111, 116, 32, 102, 111, 117, 110, 100>>
TEXT_HTML == <<116, 101, 120, 116, 47, 104, 116, 109, 108>>

\* What Router::get_resource_for_path leaves: the Response it returns and the
\* calls of the file system it made.
resource(res, calls) == [res |-> res, calls |-> calls]

\* Router::get_resource_for_path; date is the date of the Response, fs what
\* the file system and the template answer: [ok, body, mime, rendered].  The
\* paths of the model are ASCII, so from_utf8 does not fail on them.
get_resource_for_path(req, date, fs) ==
    IF req.method \notin {"Get", "Head"} THEN resource(ResponseNew(405, date), <<>>)
    ELSE IF ~(Len(req.path) > 0 /\ req.path[1] = 47)
        THEN resource(body_of_type(ResponseNew(404, date), NOT_FOUND, TEXT_PLAIN), <<>>)
    ELSE IF slice_contains(req.path, <<DOT, DOT>>) THEN resource(ResponseNew(400, date), <<>>)
    ELSE IF req.path[Len(req.path)] = 47
        THEN IF ~fs.ok
             THEN resource(body_of_type(ResponseNew(404, date), NOT_FOUND, TEXT_PLAIN),
                           <<<<"read_dir", <<DOT>> \o req.path>>>>)
             ELSE IF fs.rendered
             THEN resource(body_of_type(ResponseNew(200, date), fs.body, TEXT_HTML),
                           <<<<"read_dir", <<DOT>> \o req.path>>>>)
             ELSE resource(ResponseNew(500, date), <<<<"read_dir", <<DOT>> \o req.path>>>>)
    ELSE IF fs.ok
        THEN resource(body_of_type(ResponseNew(200, date), fs.body, fs.mime),
                      <<<<"read", <<DOT>> \o req.path>>>>)
    ELSE resource(body_of_type(ResponseNew(404, date), NOT_FOUND, TEXT_PLAIN),
                  <<<<"read", <<DOT>> \o req.path>>>>)

\* Router::route.
route(router, req, date, fs) ==
    LET host == get_single(req.headers, HOST)
    IN  IF ~(host.some /\ validate_host(router, host.bytes))
        THEN resource(ResponseNew(421, date), <<>>)
        ELSE LET r == get_resource_for_path(req, date, fs)
             IN  IF req.method = "Head" THEN [r EXCEPT !.res.body = <<>>] ELSE r

(***************************************************************************)
(* SpecRouter: a Router of a configuration answers a request.  config is   *)
(* the configuration, value the Router, message the request, parsed the    *)
(* response and echo the calls of the file system.                         *)
(***************************************************************************)
ADDRESS == <<49, 48, 46, 48, 46, 48, 46, 49>>
HOST_NAME == <<104, 46, 105, 111>>

RouterConfigs ==
    [address : {ADDRESS}, port : {DEFAULT_PORT, 8000}, host : {<<>>, HOST_NAME}]

\* The Host headers of a request: none; one value: nothing, the address or the
\* name with a port or without, another name; and two values.
HostValues ==
    { <<>>, ADDRESS, HOST_NAME, <<104, 46, 105>>, <<104, 46, 105, 111, 58>>, <<49, 48, 46, 48, 46, 48, 46, 49, 58, 56>> }
    \cup { n \o <<COLON>> \o to_string(p) : n \in {ADDRESS, HOST_NAME}, p \in {DEFAULT_PORT, 8000} }

HostHeaders ==
    { FieldsNew }
    \cup { add_header_value(FieldsNew, HOST, h) : h \in HostValues }
    \cup { add_header_value(add_header_value(FieldsNew, HOST, ADDRESS \o <<58, 56, 48>>),
                            HOST, HOST_NAME \o <<58, 56, 48>>) }

RouterPaths ==
    { <<47>>, <<47, 97>>, <<47, 97, 47>>, <<47, 46, 46>>, <<47, 97, 47, 46, 46, 47, 98>>, <<47, 97, 46, 46, 98, 47>>, <<47, 97, 46, 47, 46, 98>>, <<46, 46>>, <<97>>, <<>> }

FileSystems ==
    { [ok |-> FALSE, body |-> <<>>, mime |-> <<>>, rendered |-> FALSE],
      [ok |-> TRUE, body |-> <<102>>, mime |-> <<97, 47, 98>>, rendered |-> TRUE],
      [ok |-> TRUE, body |-> <<102>>, mime |-> <<97, 47, 98>>, rendered |-> FALSE] }

InitRouter ==
    /\ config \in RouterConfigs
    /\ value = RouterNew(config.address, config.port, config.host)
    /\ message \in [method : {"Get", "Head", "Post"}, path : RouterPaths, headers : HostHeaders]
    /\ parsed = NONE /\ echo = <<>>
    /\ pc = "request"
    /\ stream = NONE /\ fields = NONE /\ buffer = NONE /\ lines = NONE
    /\ src = NONE /\ unquoted = NONE /\ requoted = NONE
    /\ scan = NONE /\ wire = NONE

Route ==
    /\ pc = "request"
    /\ \E fs \in FileSystems :
          \E r \in {route(value, message, HTTP_DATE, fs)} :
              parsed' = r.res /\ echo' = r.calls
    /\ pc' = "routed"
    /\ UNCHANGED <<stream, message, fields, buffer, lines, valueVars, config, scanVars>>

NextRouter == Route

SpecRouter == InitRouter /\ [][NextRouter]_vars

(***************************************************************************)
(* Claims C35 and C36, under SpecRouter.                                   *)
(***************************************************************************)
\* The Host values the configuration cfg names: address:port, host:port when
\* a host name is configured, and, only when the port is 80, those without
\* their `:80`.
NamedHosts(cfg) ==
    LET full == {cfg.address \o <<COLON>> \o to_string(cfg.port)}
                    \cup (IF cfg.host = <<>> THEN {}
                          ELSE {cfg.host \o <<COLON>> \o to_string(cfg.port)})
    IN  full \cup (IF cfg.port = 80 THEN {cfg.address} \cup ({cfg.host} \ {<<>>}) ELSE {})

\* The values of the Host header of the request.
HostsOf(req) ==
    IF IndexOf(req.headers, HOST) = 0 THEN <<>> ELSE EntryValues(req.headers, HOST)

\* C35: Router::route answers 421 Misdirected Request unless the request has
\* exactly one Host value and that value is address:port, host:port when a
\* host name is configured, or, only when the port is 80, one of those
\* without its `:80`; an empty Host value is never accepted.
C35_HostDecides421 ==
    pc = "routed" =>
        (parsed.code # 421 <=>
            (Len(HostsOf(message)) = 1 /\ HostsOf(message)[1] \in NamedHosts(config)))

\* C36: for every request whose path contains `..` the router returns a
\* response without reading any file or directory: 400 Bad Request when the
\* Host is valid, the method is GET or HEAD and the path starts with '/', and
\* 421, 405 or 404 from the check that comes first otherwise.
C36_DotDotReadsNothing ==
    (pc = "routed" /\ \E i \in 1..Len(message.path) - 1 :
                            message.path[i] = DOT /\ message.path[i + 1] = DOT) =>
        /\ echo = <<>>
        /\ parsed.code =
             (IF parsed.code = 421 THEN 421
              ELSE IF message.method \notin {"Get", "Head"} THEN 405
              ELSE IF message.path[1] # 47 THEN 404
              ELSE 400)

C36_Witness ==
    /\ pc = "routed"
    /\ message.path = <<47, 97, 47, 46, 46, 47, 98>>
    /\ message.method = "Head"
    /\ parsed.code = 400
    /\ parsed.body = <<>>

(***************************************************************************)
(* stream_handler.rs: buffer_request.  The request buffer is its bytes     *)
(* (buffer) and its capacity; a connection is the bytes it has not         *)
(* delivered yet.                                                          *)
(***************************************************************************)
\* BytesMut::resize(new_len, value), the bytes.
resize(bytes, new_len, byte) ==
    IF new_len <= Len(bytes) THEN Take(bytes, new_len)
    ELSE bytes \o [i \in 1..new_len - Len(bytes) |-> byte]

\* BytesMut::truncate as it would be if it kept the bytes.
truncate_kept(bytes, len) == bytes

\* BytesMut::truncate(len).
truncate(bytes, len) == IF len < Len(bytes) THEN Take(bytes, len) ELSE bytes

\* stream.read(&mut req_buffer[writable_from..]) when it returns
\* Ok(Len(data)): data is written from writable_from on.
read_into(bytes, writable_from, data) ==
    [i \in 1..Len(bytes) |->
        IF i > writable_from /\ i <= writable_from + Len(data)
        THEN data[i - writable_from] ELSE bytes[i]]

\* What BytesMut::resize may allocate beyond the length it is asked for.
Slacks == {0, REQ_GROWTH_RATE}

\* BytesMut::capacity after a resize to new_len that allocated slack more
\* than it had to: a buffer that is large enough is not reallocated.
reserved(capacity, new_len, slack) ==
    IF new_len <= capacity THEN capacity ELSE new_len + slack

(***************************************************************************)
(* SpecBuffer: one StreamHandler buffers the requests of a sequence of     *)
(* connections.  buffer is req_buffer, scan its capacity and writable_from,*)
(* stream what the connection has not delivered yet, echo the bytes read   *)
(* from it in this dispatch, parsed what dispatch did and message the      *)
(* bytes it handed to Request::from_bytes; lines counts the connections.   *)
(***************************************************************************)
\* The number of bytes a connection delivers.
ArrivalLengths ==
    {0, 3, REQ_GROWTH_RATE, REQ_GROWTH_RATE + 3, REQ_MAX_CAPACITY}

\* What the k-th connection delivers: bytes that no other connection delivers
\* and that are not the padding.
Arrivals(k) == { [i \in 1..n |-> 96 + k] : n \in ArrivalLengths }

\* The length of a read that returns less than it could.
ShortRead == 2

\* What stream.read may return for a buffer of space bytes when pending bytes
\* are to come: all that fits, or less; 0 at the end of the stream only.
ReadSizes(space, pending) ==
    {Min(space, pending), Min(ShortRead, Min(space, pending))}

InitBuffer ==
    /\ buffer = resize(<<>>, REQ_GROWTH_RATE, 0)
    /\ scan = [capacity |-> REQ_GROWTH_RATE, writable_from |-> 0]
    /\ pc = "listening"
    /\ lines = 0
    /\ stream = NONE /\ echo = <<>> /\ message = NONE /\ parsed = NONE
    /\ fields = NONE /\ src = NONE /\ config = NONE /\ value = NONE
    /\ unquoted = NONE /\ requoted = NONE /\ wire = NONE

\* dispatch is called with a connection: buffer_request up to its loop.
Serve ==
    /\ pc = "listening"
    /\ lines < MaxConnections
    /\ stream' \in Arrivals(lines + 1)
    /\ lines' = lines + 1
    /\ buffer' = resize(buffer, scan.capacity, 0)
    /\ scan' = [scan EXCEPT !.writable_from = 0]
    /\ echo' = <<>> /\ message' = NONE /\ parsed' = NONE
    /\ pc' = "reading"
    /\ UNCHANGED <<fields, valueVars, config, wire>>

\* stream.read returns an error: buffer_request returns it and dispatch
\* returns.
ReadFails ==
    /\ pc = "reading"
    /\ buffer' = truncate(buffer, scan.writable_from)
    /\ parsed' = [kind |-> "ReadError"]
    /\ message' = NONE
    /\ pc' = "listening"
    /\ UNCHANGED <<stream, echo, lines, scan, fields, valueVars, config, wire>>

\* stream.read returns Ok(read): buffer_request goes round its loop, or
\* returns Ok and dispatch goes on to Request::from_bytes.
Read ==
    /\ pc = "reading"
    /\ \E read \in ReadSizes(Len(buffer) - scan.writable_from, Len(stream)) :
       \E slack \in Slacks :
          LET space == Len(buffer) - scan.writable_from
              filled == read_into(buffer, scan.writable_from, Take(stream, read))
              read_more == read = space /\ Len(buffer) < REQ_MAX_CAPACITY
              kept == truncate(filled, scan.writable_from + read)
          IN  /\ stream' = Drop(stream, read)
              /\ echo' = echo \o Take(stream, read)
              /\ IF read_more
                 THEN /\ buffer' = resize(filled, Len(buffer) + REQ_GROWTH_RATE, 0)
                      /\ scan' = [capacity |-> reserved(scan.capacity,
                                                        Len(buffer) + REQ_GROWTH_RATE, slack),
                                  writable_from |-> Len(buffer)]
                      /\ UNCHANGED <<message, parsed, pc>>
                 ELSE /\ buffer' = kept
                      /\ scan' = scan
                      /\ pc' = "listening"
                      /\ IF Len(kept) >= REQ_MAX_CAPACITY
                         THEN parsed' = [kind |-> "PayloadTooLarge"] /\ message' = NONE
                         ELSE parsed' = [kind |-> "Parsed"] /\ message' = [bytes |-> kept]
    /\ UNCHANGED <<lines, fields, valueVars, config, wire>>

NextBuffer == Serve \/ ReadFails \/ Read

SpecBuffer == InitBuffer /\ [][NextBuffer]_vars

(***************************************************************************)
(* Claim C37, under SpecBuffer.                                            *)
(***************************************************************************)
\* C37: across any sequence of connections handled by one StreamHandler, the
\* bytes handed to Request::from_bytes for a connection are exactly the bytes
\* read from that connection during that dispatch: no byte left in the
\* request buffer by an earlier request and no zero padding is parsed, and
\* after a read error nothing is parsed.
C37_ParsedBytesAreReadBytes ==
    /\ message # NONE => (parsed = [kind |-> "Parsed"] /\ message.bytes = echo)
    /\ parsed = [kind |-> "Parsed"] => message # NONE
    /\ pc = "listening" => buffer = (IF lines = 0 THEN resize(<<>>, REQ_GROWTH_RATE, 0)
                                     ELSE echo)

\* The second connection delivers less than the first, which had the buffer
\* grow, and its bytes are parsed.
C37_Witness ==
    /\ pc = "listening"
    /\ lines = 2
    /\ parsed = [kind |-> "Parsed"]
    /\ message.bytes = <<98, 98, 98>>
    /\ scan.capacity >= REQ_MAX_CAPACITY
=============================================================================
